---------------------------- MODULE Spec2Model ----------------------------
(***************************************************************************)
(* Query orchestration core of the flight API server: the rate limiter     *)
(* (rate_limiter.rs), the credential manager and the retrying caller       *)
(* (amadeus.rs), and the streaming handlers (sse.rs, main.rs).             *)
(*                                                                         *)
(* The module holds several specifications over one set of variables; each *)
(* specification drives one group of variables and leaves the others at    *)
(* their initial values.                                                   *)
(*   SpecRL  RateLimiter::wait called by concurrent tasks of two requests  *)
(*   SpecTK  get_token called by concurrent callers                        *)
(*   SpecSF  the retry loop of one search_flights invocation               *)
(*   SpecST  one request served by a streaming handler or by flight_search *)
(*   SpecLB  one streaming request with a long batch in which nothing fails *)
(*   SpecCK  two search requests served one after the other through the    *)
(*           response cache                                                *)
(*   SpecCG  the loops that build the date combinations of a price matrix  *)
(*   SpecSQ  one task calling RateLimiter::wait in a loop                  *)
(*   SpecFQ  concurrent tasks in RateLimiter::wait under a fair runtime    *)
(*   SpecDQ  the same tasks when calls of wait() may be dropped            *)
(*   SpecTG  two callers of get_token around the end of a token's life     *)
(*   SpecCP  one search through the provider combinator (ndc/combined.rs)  *)
(*   SpecTS  the access token used by the sub-queries of one stream        *)
(***************************************************************************)
EXTENDS Integers, Sequences, FiniteSets, TLC

VARIABLES
    \* ---- rate limiter (rate_limiter.rs) ----
    now,            \* tokio clock, in milliseconds
    tps,            \* per request: the tps its handler passes to RateLimiter::new
    reqOf,          \* per task: the request (stream) whose limiter clone it holds
    last_request,   \* per limiter: Option<Instant>, <<>> = None, <<t>> = Some(t)
    holder,         \* per limiter: owner of the tokio Mutex, <<>> = unlocked
    queue,          \* per limiter: FIFO of tasks blocked in lock().await
    rl_pc,          \* per task: position inside wait()
    wakeAt,         \* per task: deadline of its sleep()
    returns         \* history: one record per wait() that has returned

rlVars == <<now, tps, reqOf, last_request, holder, queue, rl_pc, wakeAt, returns>>

VARIABLES
    \* ---- credential manager (amadeus.rs) ----
    clock,          \* std clock, in seconds
    creds,          \* AMADEUS_CLIENT_ID and AMADEUS_CLIENT_SECRET are set
    token_cache,    \* TOKEN_CACHE: Option<TokenCache>
    issued,         \* per token ever issued: the second at which the upstream stops accepting it
    tk_pc,          \* per caller: position inside get_token()
    auth_calls,     \* number of requests sent to the auth endpoint
    checked_at,     \* per caller: number of cache writes done when it read the cache
    handed          \* history: one record per get_token() that has returned

tkVars == <<clock, creds, token_cache, issued, tk_pc, auth_calls, checked_at, handed>>

VARIABLES
    \* ---- retrying caller: one invocation of search_flights (amadeus.rs) ----
    sf_pc,          \* position inside the retry loop
    retry_count,    \* the local retry_count
    http_calls,     \* number of requests sent by this invocation
    responses,      \* history: the responses received, in order
    sleeps,         \* history: the seconds slept before each retry
    sf_result,      \* the value returned, once sf_pc = "done"
    sf_error        \* what the returned error's message carries of the response

sfVars == <<sf_pc, retry_count, http_calls, responses, sleeps, sf_result, sf_error>>

VARIABLES
    \* ---- one request served by a handler of sse.rs or main.rs ----
    redis_client,   \* AppState.redis_client is Some: a cache store is configured
    handler,        \* which handler serves the request
    adults,         \* the request's adults field (u32)
    infants,        \* the request's infants field (u32)
    total,          \* number of sub-queries of the batch
    phase,          \* "begin", "streaming", "ended" (stream exhausted), "failed" (no
                    \* stream), "replied", "aborted" (the serving task panicked),
                    \* "disconnected" (the consumer left, the body was dropped)
    it_pc,          \* per sub-query: position of its future
    it_lookup,      \* per sub-query: what the cache lookup returned
    it_waits,       \* per sub-query: number of RateLimiter::wait() calls it made
    it_calls,       \* per sub-query: number of upstream HTTP calls made for it
    it_result,      \* per sub-query: the Result of its upstream function
    it_resp,        \* per sub-query: the last upstream response made for it
    gate,           \* the request's limiter: sub-query inside wait(), 0 = nobody
    puts,           \* sub-queries whose response was written to the cache store
    events,         \* the SSE events produced so far, in order
    reply           \* the HTTP reply of a handler that does not stream

\* The fields of the request and the store of the server's state, fixed
\* while the request is served.
request == <<redis_client, handler, adults, infants, total>>

stVars == <<redis_client, handler, adults, infants, total, phase, it_pc, it_lookup, it_waits,
            it_calls, it_result, it_resp, gate, puts, events, reply>>

VARIABLES
    \* ---- two flight_search requests served one after the other (main.rs) ----
    first,          \* the FlightSearchRequest served first
    second,         \* the FlightSearchRequest served second
    ck_pc,          \* which of the two is served next
    ck_store,       \* the cache store: the entries put so far
    ck_answer       \* how the second request was answered

ckVars == <<first, second, ck_pc, ck_store, ck_answer>>

VARIABLES
    \* ---- the combination generator (sse.rs, main.rs) ----
    outbound_dates, \* payload.outbound_dates
    inbound_dates,  \* payload.inbound_dates
    outer,          \* position of the outer loop in outbound_dates
    inner,          \* position of the inner loop in inbound_dates
    combinations    \* the Vec built so far

cgVars == <<outbound_dates, inbound_dates, outer, inner, combinations>>

VARIABLES
    \* ---- callers of RateLimiter::wait (rate_limiter.rs) ----
    called          \* history: one record per call of wait(), in call order

sqVars == <<called>>

VARIABLES
    \* ---- CombinedProvider::search (ndc/combined.rs) ----
    ndc_provider,   \* self.ndc_provider is Some
    gds_pc,         \* the GDS query: "idle", "in_flight", "done"
    ndc_pc,         \* the NDC query: "idle", "in_flight", "done"
    gds_result,     \* Result of gds_provider.search, <<>> while there is none
    ndc_result,     \* Result of ndc.search, <<>> while there is none
    cp_result       \* what search returned, <<>> until it returns

cpVars == <<ndc_provider, gds_pc, ndc_pc, gds_result, ndc_result, cp_result>>

VARIABLES
    \* ---- the bearer token of one streaming request (sse.rs) ----
    ts_handler,     \* which streaming handler serves the request
    ts_cache,       \* the token TOKEN_CACHE holds now (tokens are numbered)
    ts_phase,       \* "begin", "streaming", "failed"
    ts_bearer,      \* the handler's `token`, <<>> before get_token returned
    ts_gets,        \* number of get_token() calls made for the request
    ts_pc,          \* per sub-query: "idle", "ready", "sent", "done"
    ts_tries,       \* per sub-query: upstream calls made for it
    ts_sent         \* history: the set of upstream calls made, one record each
                    \* (stale: the cache held another token than the handler's)

tsVars == <<ts_handler, ts_cache, ts_phase, ts_bearer, ts_gets, ts_pc, ts_tries, ts_sent>>

pureVars == <<ckVars, cgVars, sqVars, cpVars, tsVars>>

vars == <<rlVars, tkVars, sfVars, stVars, pureVars>>

None == <<>>
Some(x) == <<x>>

(***************************************************************************)
(* Bounds of the model.                                                    *)
(***************************************************************************)
MaxCalls == 10
MaxOffers == 3
MaxRotations == 2
MaxPauses == 1
MaxTasks == 3
MaxTicks == 10
MaxCallers == 3
MaxClockTicks == 4
MaxItems == 2
MaxParty == 1
MaxBatch == 6
MaxMisses == 1


(***************************************************************************)
(* Index sets, and the resting state of each group of variables.           *)
(***************************************************************************)
\* Two concurrent HTTP requests, each served by its own handler invocation.
Requests == {1, 2}
Tasks == 1..MaxTasks
Callers == 1..MaxCallers
Items == 1..MaxItems

IdleRL ==
    /\ now = 0
    /\ tps = [l \in Requests |-> 4]
    /\ reqOf = [task \in Tasks |-> 1]
    /\ last_request = [l \in Requests |-> None]
    /\ holder = [l \in Requests |-> None]
    /\ queue = [l \in Requests |-> <<>>]
    /\ rl_pc = [task \in Tasks |-> "returned"]
    /\ wakeAt = [task \in Tasks |-> 0]
    /\ returns = <<>>

IdleTK ==
    /\ clock = 0
    /\ creds = TRUE
    /\ token_cache = None
    /\ issued = <<>>
    /\ tk_pc = [c \in Callers |-> "done"]
    /\ auth_calls = 0
    /\ checked_at = [c \in Callers |-> 0]
    /\ handed = <<>>

IdleSF ==
    /\ sf_pc = "done"
    /\ retry_count = 0
    /\ http_calls = 0
    /\ responses = <<>>
    /\ sleeps = <<>>
    /\ sf_result = "none"
    /\ sf_error = None

IdleST ==
    /\ redis_client = FALSE
    /\ handler = "none"
    /\ adults = 1
    /\ infants = 0
    /\ total = 0
    /\ phase = "ended"
    /\ it_pc = [i \in Items |-> "idle"]
    /\ it_lookup = [i \in Items |-> "pending"]
    /\ it_waits = [i \in Items |-> 0]
    /\ it_calls = [i \in Items |-> 0]
    /\ it_result = [i \in Items |-> "none"]
    /\ it_resp = [i \in Items |-> None]
    /\ gate = 0
    /\ puts = {}
    /\ events = <<>>
    /\ reply = <<>>

IdleCK ==
    /\ first = None
    /\ second = None
    /\ ck_pc = "done"
    /\ ck_store = {}
    /\ ck_answer = None

IdleCG ==
    /\ outbound_dates = <<>>
    /\ inbound_dates = <<>>
    /\ outer = 1
    /\ inner = 1
    /\ combinations = <<>>

IdleSQ == called = <<>>

IdleCP ==
    /\ ndc_provider = FALSE
    /\ gds_pc = "done"
    /\ ndc_pc = "idle"
    /\ gds_result = None
    /\ ndc_result = None
    /\ cp_result = None

IdleTS ==
    /\ ts_handler = "none"
    /\ ts_cache = 1
    /\ ts_phase = "failed"
    /\ ts_bearer = None
    /\ ts_gets = 0
    /\ ts_pc = [i \in Items |-> "idle"]
    /\ ts_tries = [i \in Items |-> 0]
    /\ ts_sent = {}

IdlePure == IdleCK /\ IdleCG /\ IdleSQ /\ IdleCP /\ IdleTS

(***************************************************************************)
(* Credential manager: get_token and fetch_new_token.                      *)
(***************************************************************************)
\* The clock advances in steps of 30 s.
ClockSteps == {30}
\* expires_in values the auth endpoint may report, in seconds (an i64).
ExpiresIn == {-1, 30, 150, 600}

\* (token_response.expires_in as u64).saturating_sub(120)
SaturatingSub(a, b) == IF a >= b THEN a - b ELSE 0

\* `expires_in as u64` of a negative i64 is 2^64 + expires_in; less 120 it is
\* still more seconds than an Instant can hold, and `Instant::now() + ..`
\* panics ("overflow when adding duration to instant").
InstantOverflows(ttl) == ttl < 0

CacheNeverUsable == FALSE

\* cached.expires_at > Instant::now() + Duration::from_secs(60)
CacheUsable ==
    /\ token_cache # None
    /\ token_cache[1].expires_at > clock + 60

\* Number of cache writes so far: every successful refresh stores its token.
Stores == Cardinality({i \in DOMAIN handed : handed[i].result = "fetched"})

\* Lines 86-94: the cache check under the read lock. A usable token is
\* returned.
GetTokenCached(c) ==
    /\ tk_pc[c] = "start"
    /\ CacheUsable
    /\ tk_pc' = [tk_pc EXCEPT ![c] = "done"]
    /\ checked_at' = [checked_at EXCEPT ![c] = Stores]
    /\ handed' = Append(handed, [caller |-> c, token |-> token_cache[1].token,
                                 at |-> clock, result |-> "cached"])
    /\ UNCHANGED <<clock, creds, token_cache, issued, auth_calls>>
    /\ UNCHANGED <<rlVars, sfVars, stVars, pureVars>>

\* Lines 86-97 and 117-135: the check finds no usable token, the read lock is
\* dropped, and fetch_new_token sends the request to the auth endpoint.
GetTokenSend(c) ==
    /\ tk_pc[c] = "start"
    /\ ~CacheUsable
    /\ creds
    /\ tk_pc' = [tk_pc EXCEPT ![c] = "fetching"]
    /\ checked_at' = [checked_at EXCEPT ![c] = Stores]
    /\ auth_calls' = auth_calls + 1
    /\ UNCHANGED <<clock, creds, token_cache, issued, handed>>
    /\ UNCHANGED <<rlVars, sfVars, stVars, pureVars>>

\* Lines 118-121: a credential variable is not set; get_token returns the
\* error without any call.
GetTokenNoCreds(c) ==
    /\ tk_pc[c] = "start"
    /\ ~CacheUsable
    /\ ~creds
    /\ tk_pc' = [tk_pc EXCEPT ![c] = "done"]
    /\ checked_at' = [checked_at EXCEPT ![c] = Stores]
    /\ handed' = Append(handed, [caller |-> c, token |-> 0,
                                 at |-> clock, result |-> "error"])
    /\ UNCHANGED <<clock, creds, token_cache, issued, auth_calls>>
    /\ UNCHANGED <<rlVars, sfVars, stVars, pureVars>>

\* Lines 137-153 and 98-112: the auth endpoint answers 2xx with expires_in
\* seconds of life; the token is stored under the write lock and returned.
\* When the expiry cannot be computed the caller panics at line 102, before
\* the write lock is taken.
GetTokenStore(c) ==
    /\ tk_pc[c] = "fetching"
    /\ \E ttl \in ExpiresIn :
          LET id == Len(issued) + 1 IN
          IF InstantOverflows(ttl)
          THEN /\ tk_pc' = [tk_pc EXCEPT ![c] = "panicked"]
               /\ UNCHANGED <<issued, token_cache, handed>>
          ELSE /\ issued' = Append(issued, clock + ttl)
               /\ token_cache' = Some([token |-> id,
                                       expires_at |-> clock + SaturatingSub(ttl, 120)])
               /\ handed' = Append(handed, [caller |-> c, token |-> id,
                                            at |-> clock, result |-> "fetched"])
               /\ tk_pc' = [tk_pc EXCEPT ![c] = "done"]
    /\ UNCHANGED <<clock, creds, auth_calls, checked_at>>
    /\ UNCHANGED <<rlVars, sfVars, stVars, pureVars>>

\* Lines 135-149: transport error or non-2xx answer; the `?` at line 97
\* returns the error.
GetTokenFail(c) ==
    /\ tk_pc[c] = "fetching"
    /\ tk_pc' = [tk_pc EXCEPT ![c] = "done"]
    /\ handed' = Append(handed, [caller |-> c, token |-> 0,
                                 at |-> clock, result |-> "error"])
    /\ UNCHANGED <<clock, creds, token_cache, issued, auth_calls, checked_at>>
    /\ UNCHANGED <<rlVars, sfVars, stVars, pureVars>>

ClockTick ==
    /\ \E c \in Callers : tk_pc[c] # "done"
    /\ \E d \in ClockSteps :
          /\ clock + d <= MaxClockTicks * 30
          /\ clock' = clock + d
    /\ UNCHANGED <<creds, token_cache, issued, tk_pc, auth_calls, checked_at, handed>>
    /\ UNCHANGED <<rlVars, sfVars, stVars, pureVars>>

\* The process starts with an empty cache; a cache holding a token fetched
\* earlier (600 s of life, of which 120 s or 480 s are left) is the state later
\* requests find.
InitTK ==
    /\ IdlePure
    /\ IdleRL
    /\ IdleSF
    /\ IdleST
    /\ clock = 0
    /\ creds \in BOOLEAN
    /\ \E c0 \in {<<None, <<>> >>,
                  <<Some([token |-> 1, expires_at |-> 0]), <<120>> >>,
                  <<Some([token |-> 1, expires_at |-> 360]), <<480>> >>} :
          /\ token_cache = c0[1]
          /\ issued = c0[2]
    /\ tk_pc = [c \in Callers |-> "start"]
    /\ auth_calls = 0
    /\ checked_at = [c \in Callers |-> 0]
    /\ handed = <<>>

NextTK ==
    \/ \E c \in Callers : GetTokenCached(c)
    \/ \E c \in Callers : GetTokenSend(c)
    \/ \E c \in Callers : GetTokenNoCreds(c)
    \/ \E c \in Callers : GetTokenStore(c)
    \/ \E c \in Callers : GetTokenFail(c)
    \/ ClockTick

SpecTK == InitTK /\ [][NextTK]_vars

\* Two callers of get_token, the others staying out; the cache is empty or
\* holds a token that is usable now and no longer usable 30 s later.
PairOfCallers == {1, 2}

InitTG ==
    /\ IdlePure
    /\ IdleRL
    /\ IdleSF
    /\ IdleST
    /\ clock = 0
    /\ creds \in BOOLEAN
    /\ \E c0 \in {<<None, <<>> >>,
                  <<Some([token |-> 1, expires_at |-> 90]), <<210>> >>} :
          /\ token_cache = c0[1]
          /\ issued = c0[2]
    /\ tk_pc = [c \in Callers |-> IF c \in PairOfCallers THEN "start" ELSE "done"]
    /\ auth_calls = 0
    /\ checked_at = [c \in Callers |-> 0]
    /\ handed = <<>>

SpecTG == InitTG /\ [][NextTK]_vars

(***************************************************************************)
(* Retrying caller: the loop of search_flights.                            *)
(***************************************************************************)
\* let max_retries = 3;
max_retries == 3

\* What the upstream can answer to one request. status "transport" is a
\* request that fails without an HTTP response. A 2xx body holds offers, holds
\* an empty data array, or does not parse as FlightOffersResponse; of the
\* bodies that do not parse, "garbage cut" is longer than 1000 bytes and has a
\* multi-byte character across byte 1000. A 429 may carry a Retry-After
\* header, whose value is a number of seconds or an HTTP date.
Bodies == {"offers", "empty", "garbage", "garbage cut"}
HintValues == {"0", "3", "soon", "Wed, 04 Nov 2026 07:28:00 GMT"}
Response(st, b, hh, h) == [status |-> st, body |-> b, has_hint |-> hh, hint |-> h]
Responses ==
    {Response("2xx", b, FALSE, "") : b \in Bodies}
    \cup {Response("429", "", TRUE, h) : h \in HintValues}
    \cup {Response("429", "", FALSE, ""), Response("500", "internal error", FALSE, ""),
          Response("transport", "", FALSE, "")}

\* serde_json::from_str::<FlightOffersResponse>(&response_text)
Parses(body) == body \in {"offers", "empty"}

\* &response_text[..response_text.len().min(1000)], an argument of the error!
\* of the parse failure: slicing inside a character panics.
SlicePanics(body) == body = "garbage cut"

\* retry_after.to_str().unwrap_or("1").parse().unwrap_or(1)
ParseRetryAfter(h) ==
    CASE h = "0" -> 0
      [] h = "3" -> 3
      [] OTHER -> 1

\* 1 << (retry_count - 1)
Backoff(rc) == 2 ^ (rc - 1)

\* if retry_count >= max_retries
RetriesExhaustedOffByOne(rc) == rc > max_retries
RetriesExhausted(rc) == rc >= max_retries

\* The seconds slept after a 429, retry_count already incremented.
WaitTime(resp, rc) ==
    IF resp.has_hint THEN ParseRetryAfter(resp.hint) ELSE Backoff(rc)

\* else if response.status() == 429: the only status that is retried.
RetryableAnyErrorStatus(resp) == resp.status \notin {"2xx", "transport"}
Retryable(resp) == resp.status = "429"

\* One pass of the loop body on the response `resp`: the returned value
\* ("retry" when the loop sleeps and continues, "panic" when the task
\* unwinds).
Outcome(resp, rc) ==
    CASE resp.status = "transport" -> "transport_error"
      [] resp.status = "2xx" /\ ~Parses(resp.body) /\ SlicePanics(resp.body) -> "panic"
      [] resp.status = "2xx" /\ ~Parses(resp.body) -> "decode_error"
      [] resp.status = "2xx" /\ resp.body = "offers" -> "ok_offers"
      [] resp.status = "2xx" /\ resp.body = "empty" -> "ok_empty"
      [] Retryable(resp) /\ RetriesExhausted(rc) -> "rate_limit_error"
      [] Retryable(resp) -> "retry"
      [] OTHER -> "status_error"

IsOk(result) == result \in {"ok_offers", "ok_empty"}

\* The anyhow! messages: only the one of the last branch is formatted from
\* the response, with its status and its body text.
ErrorDetail(resp, out) ==
    IF out = "status_error" THEN Some([status |-> resp.status, body |-> resp.body])
    ELSE None

\* client.post(...).send().await and the branch taken on the response.
SfSend ==
    /\ sf_pc = "send"
    /\ \E resp \in Responses :
          LET out == Outcome(resp, retry_count) IN
          /\ responses' = Append(responses, resp)
          /\ http_calls' = http_calls + 1
          /\ IF out = "retry"
             THEN /\ retry_count' = retry_count + 1
                  /\ sleeps' = Append(sleeps, WaitTime(resp, retry_count + 1))
                  /\ sf_pc' = "sleeping"
                  /\ UNCHANGED <<sf_result, sf_error>>
             ELSE /\ sf_result' = out
                  /\ sf_error' = ErrorDetail(resp, out)
                  /\ sf_pc' = IF out = "panic" THEN "panicked" ELSE "done"
                  /\ UNCHANGED <<retry_count, sleeps>>
    /\ UNCHANGED <<rlVars, tkVars, stVars, pureVars>>

\* tokio::time::sleep(Duration::from_secs(wait_time)) is over: continue.
SfWake ==
    /\ sf_pc = "sleeping"
    /\ sf_pc' = "send"
    /\ UNCHANGED <<retry_count, http_calls, responses, sleeps, sf_result, sf_error>>
    /\ UNCHANGED <<rlVars, tkVars, stVars, pureVars>>

InitSF ==
    /\ IdlePure
    /\ IdleRL
    /\ IdleTK
    /\ IdleST
    /\ sf_pc = "send"
    /\ retry_count = 0
    /\ http_calls = 0
    /\ responses = <<>>
    /\ sleeps = <<>>
    /\ sf_result = "none"
    /\ sf_error = None

NextSF == SfSend \/ SfWake

SpecSF == InitSF /\ [][NextSF]_vars

(***************************************************************************)
(* Rate limiter.                                                           *)
(***************************************************************************)
\* The clock advances in steps of 50 ms.
TickSteps == {50}
\* RateLimiter::new(10) in the pricing and upsell streams, new(4) in the
\* price-matrix stream.
StreamTps == {4, 10}

\* let interval_ms = 1000 / tps as u64;
IntervalMs(t) == 1000 \div t

\* Every streaming handler builds its own limiter (RateLimiter::new inside the
\* handler body); the sub-query futures of that request get clones of it, which
\* share last_request through the Arc.
LimiterOf(task) == reqOf[task]

interval_ms(l) == IntervalMs(tps[l])

\* The MutexGuard `last` lives until the end of wait(): the task that sleeps
\* inside the gate still owns the mutex.
GuardDroppedBeforeSleep(task) == None
GuardDuringSleep(task) == Some(task)

\* Dropping the guard: tokio's Mutex is a fair semaphore, the permit goes to
\* the longest-waiting task.
EnqueueFront(waiters, task) == <<task>> \o waiters

\* lock().await on a held mutex: the waiter goes to the back of the
\* semaphore's wait list.
Enqueue(waiters, task) == Append(waiters, task)

ReleaseHolder(l) == IF queue[l] = <<>> THEN None ELSE Some(Head(queue[l]))
ReleaseQueue(l) == IF queue[l] = <<>> THEN <<>> ELSE Tail(queue[l])
ReleasePc(l, task) ==
    IF queue[l] = <<>>
    THEN [rl_pc EXCEPT ![task] = "returned"]
    ELSE [rl_pc EXCEPT ![task] = "returned", ![Head(queue[l])] = "granted"]

\* Lines 39-48 for a task that owns the guard: sleep for the rest of the
\* interval, or record the dispatch and return.
Gate(task) ==
    LET l == LimiterOf(task)
        required == interval_ms(l)
        elapsed == IF last_request[l] = None THEN 0 ELSE now - last_request[l][1]
    IN  IF last_request[l] # None /\ elapsed < required
        THEN /\ rl_pc' = [rl_pc EXCEPT ![task] = "sleeping"]
             /\ wakeAt' = [wakeAt EXCEPT ![task] = now + (required - elapsed)]
             /\ holder' = [holder EXCEPT ![l] = GuardDuringSleep(task)]
             /\ UNCHANGED <<last_request, queue, returns>>
        ELSE /\ last_request' = [last_request EXCEPT ![l] = Some(now)]
             /\ returns' = Append(returns, [task |-> task, limiter |-> l, at |-> now])
             /\ holder' = [holder EXCEPT ![l] = ReleaseHolder(l)]
             /\ queue' = [queue EXCEPT ![l] = ReleaseQueue(l)]
             /\ rl_pc' = ReleasePc(l, task)
             /\ UNCHANGED wakeAt

\* self.last_request.lock().await on a free mutex, then lines 39-48.
WaitLock(task) ==
    /\ rl_pc[task] = "start"
    /\ holder[LimiterOf(task)] = None
    /\ Gate(task)
    /\ UNCHANGED <<now, tps, reqOf>>
    /\ UNCHANGED <<tkVars, sfVars, stVars, pureVars>>

\* lock().await on a held mutex: the task joins the FIFO of waiters.
WaitQueue(task) ==
    /\ rl_pc[task] = "start"
    /\ holder[LimiterOf(task)] # None
    /\ queue' = [queue EXCEPT ![LimiterOf(task)] = Enqueue(@, task)]
    /\ rl_pc' = [rl_pc EXCEPT ![task] = "queued"]
    /\ UNCHANGED <<now, tps, reqOf, last_request, holder, wakeAt, returns>>
    /\ UNCHANGED <<tkVars, sfVars, stVars, pureVars>>

\* A task that was handed the mutex is polled again and runs lines 39-48.
WaitGranted(task) ==
    /\ rl_pc[task] = "granted"
    /\ Gate(task)
    /\ UNCHANGED <<now, tps, reqOf>>
    /\ UNCHANGED <<tkVars, sfVars, stVars, pureVars>>

\* sleep(required - elapsed) is over (tokio never wakes early): line 48, then
\* the guard drops.
WaitWake(task) ==
    LET l == LimiterOf(task) IN
    /\ rl_pc[task] = "sleeping"
    /\ now >= wakeAt[task]
    /\ last_request' = [last_request EXCEPT ![l] = Some(now)]
    /\ returns' = Append(returns, [task |-> task, limiter |-> l, at |-> now])
    /\ IF holder[l] = Some(task)
       THEN /\ holder' = [holder EXCEPT ![l] = ReleaseHolder(l)]
            /\ queue' = [queue EXCEPT ![l] = ReleaseQueue(l)]
            /\ rl_pc' = ReleasePc(l, task)
       ELSE /\ rl_pc' = [rl_pc EXCEPT ![task] = "returned"]
            /\ UNCHANGED <<holder, queue>>
    /\ UNCHANGED <<now, tps, reqOf, wakeAt>>
    /\ UNCHANGED <<tkVars, sfVars, stVars, pureVars>>

\* Time passes while some task is still inside or before wait().
Tick ==
    /\ \E task \in Tasks : rl_pc[task] # "returned"
    /\ \E d \in TickSteps :
          /\ now + d <= MaxTicks * 50
          /\ now' = now + d
    /\ UNCHANGED <<tps, reqOf, last_request, holder, queue, rl_pc, wakeAt, returns>>
    /\ UNCHANGED <<tkVars, sfVars, stVars, pureVars>>

InitRL ==
    /\ IdlePure
    /\ IdleTK
    /\ IdleSF
    /\ IdleST
    /\ now = 0
    /\ tps \in [Requests -> StreamTps]
    /\ reqOf \in [Tasks -> Requests]
    /\ last_request = [l \in Requests |-> None]
    /\ holder = [l \in Requests |-> None]
    /\ queue = [l \in Requests |-> <<>>]
    /\ rl_pc = [task \in Tasks |-> "start"]
    /\ wakeAt = [task \in Tasks |-> 0]
    /\ returns = <<>>

NextRL ==
    \/ \E task \in Tasks : WaitLock(task)
    \/ \E task \in Tasks : WaitQueue(task)
    \/ \E task \in Tasks : WaitGranted(task)
    \/ \E task \in Tasks : WaitWake(task)
    \/ Tick

SpecRL == InitRL /\ [][NextRL]_vars

(***************************************************************************)
(* The rate limiter with an event-driven clock: time passes only while a   *)
(* task sleeps inside wait() or pauses between two calls.                  *)
(***************************************************************************)
\* A timer of the runtime fires at its deadline or up to a millisecond late.
TimerSlack == {0, 1}

\* sleep(required - elapsed).await completes.
SleepElapses(task) ==
    /\ rl_pc[task] = "sleeping"
    /\ now < wakeAt[task]
    /\ \E late \in TimerSlack : now' = wakeAt[task] + late
    /\ UNCHANGED <<tps, reqOf, last_request, holder, queue, rl_pc, wakeAt, returns>>
    /\ UNCHANGED <<tkVars, sfVars, stVars, pureVars>>

\* One task builds a limiter and calls wait() on it in a loop, as the test
\* of the module does.
SeqTask == 1
SeqTps == {0, 3, 4, 10}
\* time the caller spends between the return of one call and the next call
Pauses == {0, 150}

\* `1000 / tps as u64` with a zero divisor panics (attempt to divide by zero)
DivisionPanics(t) == t = 0

\* RateLimiter::new(tps)
New ==
    /\ rl_pc[SeqTask] = "unbuilt"
    /\ rl_pc' = [rl_pc EXCEPT ![SeqTask] =
                    IF DivisionPanics(tps[LimiterOf(SeqTask)]) THEN "panicked" ELSE "built"]
    /\ UNCHANGED <<now, tps, reqOf, last_request, holder, queue, wakeAt, returns>>
    /\ UNCHANGED <<tkVars, sfVars, stVars, pureVars>>

\* the calls that did not follow the previous return (or the construction)
\* immediately
Paused ==
    {k \in 1..Len(called) : called[k].at # (IF k = 1 THEN 0 ELSE returns[k - 1].at)}

\* limiter.wait().await, called once more; at most MaxPauses calls of a run
\* come after a pause
Call ==
    /\ rl_pc[SeqTask] \in {"built", "returned"}
    /\ Len(called) < MaxCalls
    /\ \E pause \in Pauses :
          /\ pause = 0 \/ Cardinality(Paused) < MaxPauses
          /\ now' = now + pause
          /\ called' = Append(called, [task |-> SeqTask, at |-> now + pause])
    /\ rl_pc' = [rl_pc EXCEPT ![SeqTask] = "start"]
    /\ UNCHANGED <<tps, reqOf, last_request, holder, queue, wakeAt, returns>>
    /\ UNCHANGED <<tkVars, sfVars, stVars, ckVars, cgVars, cpVars, tsVars>>

InitSQ ==
    /\ IdleCK
    /\ IdleCG
    /\ IdleCP
    /\ IdleTS
    /\ IdleTK
    /\ IdleSF
    /\ IdleST
    /\ now = 0
    /\ \E t \in SeqTps :
          tps = [l \in Requests |-> IF l = 1 THEN t ELSE 4]
    /\ reqOf = [task \in Tasks |-> 1]
    /\ last_request = [l \in Requests |-> None]
    /\ holder = [l \in Requests |-> None]
    /\ queue = [l \in Requests |-> <<>>]
    /\ rl_pc = [task \in Tasks |-> IF task = SeqTask THEN "unbuilt" ELSE "returned"]
    /\ wakeAt = [task \in Tasks |-> 0]
    /\ returns = <<>>
    /\ called = <<>>

NextSQ ==
    \/ New
    \/ Call
    \/ \E task \in Tasks : WaitLock(task)
    \/ \E task \in Tasks : SleepElapses(task)
    \/ \E task \in Tasks : WaitWake(task)

SpecSQ == InitSQ /\ [][NextSQ]_vars

\* Concurrent tasks of one request, each calling wait() once on the limiter
\* of the request, under a runtime that polls every task that is ready and
\* fires every timer.  The limiter is fresh, or an earlier task (numbered 0)
\* has just passed it.
EarlierReturns(used) ==
    SelectSeq([l \in Requests |-> [task |-> 0, limiter |-> l, at |-> 0]],
              LAMBDA r : r.limiter \in used)

\* A task calls wait() while the mutex is free: lock().await succeeds at
\* once, then lines 39-48.
ArriveLock(task) ==
    /\ rl_pc[task] = "start"
    /\ holder[LimiterOf(task)] = None
    /\ Gate(task)
    /\ called' = Append(called, [task |-> task, at |-> now])
    /\ UNCHANGED <<now, tps, reqOf>>
    /\ UNCHANGED <<tkVars, sfVars, stVars, ckVars, cgVars, cpVars, tsVars>>

\* A task calls wait() while the mutex is held: it joins the waiters.
ArriveQueue(task) ==
    /\ rl_pc[task] = "start"
    /\ holder[LimiterOf(task)] # None
    /\ queue' = [queue EXCEPT ![LimiterOf(task)] = Enqueue(@, task)]
    /\ rl_pc' = [rl_pc EXCEPT ![task] = "queued"]
    /\ called' = Append(called, [task |-> task, at |-> now])
    /\ UNCHANGED <<now, tps, reqOf, last_request, holder, wakeAt, returns>>
    /\ UNCHANGED <<tkVars, sfVars, stVars, ckVars, cgVars, cpVars, tsVars>>

InitFQ ==
    /\ IdleCK
    /\ IdleCG
    /\ IdleCP
    /\ IdleTS
    /\ IdleTK
    /\ IdleSF
    /\ IdleST
    /\ now = 0
    /\ \E t \in StreamTps :
          tps = [l \in Requests |-> IF l = 1 THEN t ELSE 4]
    /\ reqOf = [task \in Tasks |-> 1]
    /\ \E used \in SUBSET {1} :
          /\ last_request = [l \in Requests |-> IF l \in used THEN Some(0) ELSE None]
          /\ returns = EarlierReturns(used)
    /\ holder = [l \in Requests |-> None]
    /\ queue = [l \in Requests |-> <<>>]
    /\ rl_pc = [task \in Tasks |-> "start"]
    /\ wakeAt = [task \in Tasks |-> 0]
    /\ called = <<>>

NextFQ ==
    \/ \E task \in Tasks : ArriveLock(task)
    \/ \E task \in Tasks : ArriveQueue(task)
    \/ \E task \in Tasks : WaitGranted(task)
    \/ \E task \in Tasks : SleepElapses(task)
    \/ \E task \in Tasks : WaitWake(task)

FairFQ ==
    \A task \in Tasks :
        /\ WF_vars(WaitGranted(task))
        /\ WF_vars(SleepElapses(task))
        /\ WF_vars(WaitWake(task))

SpecFQ == InitFQ /\ [][NextFQ]_vars /\ FairFQ

\* The same tasks when the consumer of the stream may go away: the response
\* body owns the stream, dropping it drops the futures of the sub-queries,
\* each at the await point it has reached inside wait().
RemoveWaiter(waiters, task) == SelectSeq(waiters, LAMBDA w : w # task)

\* A future dropped in lock().await was not holding the mutex.
DropQueued(task) ==
    LET l == LimiterOf(task) IN
    /\ rl_pc[task] = "queued"
    /\ queue' = [queue EXCEPT ![l] = RemoveWaiter(@, task)]
    /\ rl_pc' = [rl_pc EXCEPT ![task] = "dropped in lock"]
    /\ UNCHANGED <<now, tps, reqOf, last_request, holder, wakeAt, returns>>
    /\ UNCHANGED <<tkVars, sfVars, stVars, pureVars>>

\* The MutexGuard `last` is a local of the future: dropping the future drops
\* the guard, and the mutex goes to the longest-waiting task.
GuardKeptByDropped(l) == holder[l]
GuardAfterDrop(l) == ReleaseHolder(l)

PcAfterDrop(l, task, at) ==
    IF GuardAfterDrop(l) # None /\ GuardAfterDrop(l) # Some(task)
    THEN [rl_pc EXCEPT ![task] = at, ![GuardAfterDrop(l)[1]] = "granted"]
    ELSE [rl_pc EXCEPT ![task] = at]

QueueAfterDrop(l, task) ==
    IF GuardAfterDrop(l) = Some(task) THEN queue[l] ELSE ReleaseQueue(l)

\* A future dropped after the mutex was handed to it and before it was
\* polled again: the permit goes back to the semaphore.
DropGranted(task) ==
    LET l == LimiterOf(task) IN
    /\ rl_pc[task] = "granted"
    /\ holder' = [holder EXCEPT ![l] = GuardAfterDrop(l)]
    /\ queue' = [queue EXCEPT ![l] = QueueAfterDrop(l, task)]
    /\ rl_pc' = PcAfterDrop(l, task, "dropped in lock")
    /\ UNCHANGED <<now, tps, reqOf, last_request, wakeAt, returns>>
    /\ UNCHANGED <<tkVars, sfVars, stVars, pureVars>>

\* A future dropped in sleep(required - elapsed).await: line 48 is never
\* reached.
DropSleeping(task) ==
    LET l == LimiterOf(task) IN
    /\ rl_pc[task] = "sleeping"
    /\ holder' = [holder EXCEPT ![l] = GuardAfterDrop(l)]
    /\ queue' = [queue EXCEPT ![l] = QueueAfterDrop(l, task)]
    /\ rl_pc' = PcAfterDrop(l, task, "dropped in sleep")
    /\ UNCHANGED <<now, tps, reqOf, last_request, wakeAt, returns>>
    /\ UNCHANGED <<tkVars, sfVars, stVars, pureVars>>

NextDQ ==
    \/ NextFQ
    \/ \E task \in Tasks : DropQueued(task)
    \/ \E task \in Tasks : DropGranted(task)
    \/ \E task \in Tasks : DropSleeping(task)

SpecDQ == InitFQ /\ [][NextDQ]_vars /\ FairFQ

(***************************************************************************)
(* Streaming handlers (sse.rs) and the flight_search handler (main.rs).    *)
(***************************************************************************)
StreamHandlers == {"price_matrix_stream", "flight_price_stream", "upsell_stream"}
SequentialHandlers == {"flight_price_stream", "upsell_stream"}
Handlers == StreamHandlers \cup {"flight_search"}

\* .buffer_unordered(4)
BufferSize == 4

\* price.total of the first offer of a cached response and of an upstream
\* response.
CachedPrice == "80.00"
UpstreamPrice == "95.00"

\* What a cache lookup can return: no entry, an entry that does not decode,
\* a store that cannot be reached, or a decodable FlightOffersResponse with or
\* without offers.
LookupResults == {"absent", "undecodable", "unreachable", "offers", "empty"}

\* Lines 354-371: with no store configured there is nothing to look up.
LookupsOf(configured) == IF configured THEN LookupResults ELSE {"no_store"}

\* Lines 383-393: the put is attempted only on a configured store, and may
\* fail there (no connection, serialization, SET error).
StoreOutcomesIgnoringConfig(configured) == BOOLEAN
StoreOutcomes(configured) == IF configured THEN BOOLEAN ELSE {FALSE}

\* Lines 354-371: Some(resp) only for an entry that decodes.
CacheNeverHits(lookup) == FALSE
CacheHitOrBrokenEntry(lookup) == lookup \in {"offers", "empty", "undecodable"}
CacheHit(lookup) == lookup \in {"offers", "empty"}

\* resp.data.first().map(|offer| offer.price.total.clone()) on a cached
\* response.
CachedFirstPrice(lookup) == IF lookup = "offers" THEN Some(CachedPrice) ELSE None

\* The upstream answers one search_flights invocation sees, up to its return.
SearchScripts ==
    {<<Response("2xx", "offers", FALSE, "")>>,
     <<Response("2xx", "empty", FALSE, "")>>,
     <<Response("2xx", "garbage", FALSE, "")>>,
     <<Response("2xx", "garbage cut", FALSE, "")>>,
     <<Response("500", "internal error", FALSE, "")>>,
     <<Response("429", "", FALSE, ""), Response("2xx", "offers", FALSE, "")>>}

\* search_flights, lines 197-199: `i % req.adults` for every infant; the
\* remainder by zero panics, before any request is sent.
TravelersPanic == infants > 0 /\ adults = 0

\* search_flights run on a script: the loop of lines 338-419.
RECURSIVE RunSearch(_, _, _)
RunSearch(script, i, rc) ==
    LET out == Outcome(script[i], rc) IN
    IF out = "retry" /\ i < Len(script)
    THEN RunSearch(script, i + 1, rc + 1)
    ELSE [result |-> out, calls |-> i, last |-> script[i]]

\* Lines 381-419 of price_matrix_stream: the price of the event.
SearchPrice(result) == IF result = "ok_offers" THEN Some(UpstreamPrice) ELSE None

\* The error texts of a 400 answer: the error whose code is 39397 ("no
\* upsell offers found"), an error with another code, and an error with
\* another code whose text holds the digits 39397 elsewhere (in a detail, a
\* pointer or an identifier).
ErrorTexts == {"code 39397", "code 4926", "code 4926 offer 39397"}

\* error_text.contains("39397")
Contains39397(text) == text \in {"code 39397", "code 4926 offer 39397"}

\* price_flight_offers and get_upsell_offers: one call, Ok on a 2xx answer
\* whose body parses, Err otherwise; get_upsell_offers turns a 400 answer
\* whose text contains 39397 into an empty Ok response.
SingleCallOutcome(h, resp) ==
    CASE resp.status = "transport" -> "error"
      [] resp.status = "2xx" /\ Parses(resp.body) -> "ok_offers"
      [] h = "upsell_stream" /\ resp.status = "400" /\ Contains39397(resp.body) -> "ok_empty"
      [] OTHER -> "error"
SingleCallResponses ==
    {Response("2xx", "offers", FALSE, ""), Response("2xx", "garbage", FALSE, ""),
     Response("500", "internal error", FALSE, ""), Response("429", "", FALSE, ""),
     Response("404", "code 39397", FALSE, ""), Response("transport", "", FALSE, "")}
    \cup {Response("400", text, FALSE, "") : text \in ErrorTexts}

Event(type, item, price, current, tot, ok, failed) ==
    [type |-> type, item |-> item, price |-> price, current |-> current,
     total |-> tot, successful |-> ok, failed |-> failed]

\* Lines 422-463: the events of combination number i (index i - 1).
MatrixEvents(i, price) ==
    <<Event("Price", i, price, 0, 0, 0, 0)>>
    \o (IF i % 5 = 0 \/ i = total
        THEN <<Event("Progress", 0, None, i, total, 0, 0)>>
        ELSE <<>>)
    \o (IF i = total
        THEN <<Event("Complete", 0, None, 0, total, total, 0)>>
        ELSE <<>>)

ResultBeforeProgress(i, result) ==
    <<Event(IF IsOk(result) THEN "Success" ELSE "Error", i, None, 0, 0, 0, 0),
      Event("Progress", 0, None, i, total, 0, 0)>>

\* Lines 125-149 and 217-244: the events of offer number i.
SequentialEvents(i, result) ==
    <<Event("Progress", 0, None, i, total, 0, 0),
      Event(IF IsOk(result) THEN "Success" ELSE "Error", i, None, 0, 0, 0, 0)>>

InFlight == {i \in 1..total : it_pc[i] \notin {"idle", "done"}}

\* buffer_unordered(4) pulls the next future only while fewer than 4 are in
\* its queue.
AlwaysFreeSlot == TRUE
HasFreeSlot == Cardinality(InFlight) < BufferSize

\* The stream is the body of the response: its futures run only when the
\* server polls the body for the consumer; nothing is spawned.
StreamDetached == phase \in {"streaming", "disconnected"}
StreamPolled == phase = "streaming"

\* What get_token returns to a handler: a token, or the error of
\* fetch_new_token (a credential variable not set, a non-2xx answer of the
\* auth endpoint, a request that fails).
TokenResults == {"ok", "credentials_absent", "auth_status_error", "auth_transport_error"}

\* match amadeus::get_token(..).await: Err returns from the handler.
AfterTokenErrorIgnored(res) == "streaming"
AfterToken(res) == IF res = "ok" THEN "streaming" ELSE "failed"

\* get_token at the head of a streaming handler; on Err the handler returns
\* 500 and builds no stream.
Begin ==
    /\ phase = "begin"
    /\ handler \in StreamHandlers
    /\ \E res \in TokenResults :
          /\ phase' = AfterToken(res)
          /\ reply' = IF res = "ok" THEN reply ELSE Some([status |-> 500, data |-> <<>>])
    /\ UNCHANGED <<request, it_resp, it_pc, it_lookup, it_waits, it_calls, it_result,
                   gate, puts, events>>
    /\ UNCHANGED <<rlVars, tkVars, sfVars, pureVars>>

\* buffer_unordered takes the next combination from the iterator while fewer
\* than 4 futures are in flight; the future starts with the cache lookup.
MatrixStart(i) ==
    /\ StreamPolled
    /\ handler = "price_matrix_stream"
    /\ i \in 1..total
    /\ it_pc[i] = "idle"
    /\ \A j \in 1..(i - 1) : it_pc[j] # "idle"
    /\ HasFreeSlot
    /\ it_pc' = [it_pc EXCEPT ![i] = "lookup"]
    /\ UNCHANGED <<request, it_resp, phase, it_lookup, it_waits, it_calls, it_result,
                   gate, puts, events, reply>>
    /\ UNCHANGED <<rlVars, tkVars, sfVars, pureVars>>

\* Lines 353-375 and 422-463: the lookup returns; on a hit the future ends
\* with its events, which the flattened stream hands out.
MatrixLookup(i) ==
    /\ StreamPolled
    /\ handler = "price_matrix_stream"
    /\ i \in 1..total
    /\ it_pc[i] = "lookup"
    /\ \E lookup \in LookupsOf(redis_client) :
          /\ it_lookup' = [it_lookup EXCEPT ![i] = lookup]
          /\ IF CacheHit(lookup)
             THEN /\ it_pc' = [it_pc EXCEPT ![i] = "done"]
                  /\ it_result' = [it_result EXCEPT ![i] = "cached"]
                  /\ events' = events \o MatrixEvents(i, CachedFirstPrice(lookup))
                  /\ UNCHANGED it_waits
             ELSE /\ it_pc' = [it_pc EXCEPT ![i] = "wait"]
                  /\ it_waits' = [it_waits EXCEPT ![i] = @ + 1]
                  /\ UNCHANGED <<it_result, events>>
    /\ UNCHANGED <<request, it_resp, phase, it_calls, gate, puts, reply>>
    /\ UNCHANGED <<rlVars, tkVars, sfVars, pureVars>>

\* The pricing and upsell streams: `.then` starts offer i once the futures of
\* the offers before it have finished; the future starts with limiter.wait().
SequentialStart(i) ==
    /\ StreamPolled
    /\ handler \in SequentialHandlers
    /\ i \in 1..total
    /\ it_pc[i] = "idle"
    /\ \A j \in 1..(i - 1) : it_pc[j] = "done"
    /\ it_pc' = [it_pc EXCEPT ![i] = "wait"]
    /\ it_waits' = [it_waits EXCEPT ![i] = @ + 1]
    /\ UNCHANGED <<request, it_resp, phase, it_lookup, it_calls, it_result, gate, puts,
                   events, reply>>
    /\ UNCHANGED <<rlVars, tkVars, sfVars, pureVars>>

\* Inside limiter.wait(): the future takes the mutex of the request's limiter.
LimiterEnter(i) ==
    /\ StreamPolled
    /\ i \in 1..total
    /\ it_pc[i] = "wait"
    /\ gate = 0
    /\ gate' = i
    /\ it_pc' = [it_pc EXCEPT ![i] = "gate"]
    /\ UNCHANGED <<request, it_resp, phase, it_lookup, it_waits, it_calls, it_result,
                   puts, events, reply>>
    /\ UNCHANGED <<rlVars, tkVars, sfVars, pureVars>>

\* limiter.wait() returns and the upstream function is entered: it sends its
\* request, or (search_flights) panics while building the travelers, which
\* unwinds the task that serves the response.
LimiterLeave(i) ==
    /\ StreamPolled
    /\ i \in 1..total
    /\ it_pc[i] = "gate"
    /\ gate = i
    /\ gate' = 0
    /\ IF handler = "price_matrix_stream" /\ TravelersPanic
       THEN /\ it_pc' = [it_pc EXCEPT ![i] = "panicked"]
            /\ phase' = "aborted"
       ELSE /\ it_pc' = [it_pc EXCEPT ![i] = "call"]
            /\ UNCHANGED phase
    /\ UNCHANGED <<request, it_resp, it_lookup, it_waits, it_calls, it_result, puts,
                   events, reply>>
    /\ UNCHANGED <<rlVars, tkVars, sfVars, pureVars>>

\* Lines 380-463: search_flights returns; an Ok response is written to the
\* cache store (best effort), and the future ends with its events.
MatrixSearchDone(i) ==
    /\ StreamPolled
    /\ handler = "price_matrix_stream"
    /\ i \in 1..total
    /\ it_pc[i] = "call"
    /\ \E script \in SearchScripts, stored \in StoreOutcomes(redis_client) :
          LET run == RunSearch(script, 1, 0) IN
          /\ it_result' = [it_result EXCEPT ![i] = run.result]
          /\ it_calls' = [it_calls EXCEPT ![i] = run.calls]
          /\ it_resp' = [it_resp EXCEPT ![i] = Some(run.last)]
          /\ puts' = IF IsOk(run.result) /\ stored THEN puts \cup {i} ELSE puts
          /\ IF run.result = "panic"
             THEN /\ it_pc' = [it_pc EXCEPT ![i] = "panicked"]
                  /\ phase' = "aborted"
                  /\ UNCHANGED events
             ELSE /\ it_pc' = [it_pc EXCEPT ![i] = "done"]
                  /\ events' = events \o MatrixEvents(i, SearchPrice(run.result))
                  /\ UNCHANGED phase
    /\ UNCHANGED <<request, it_lookup, it_waits, gate, reply>>
    /\ UNCHANGED <<rlVars, tkVars, sfVars, pureVars>>

\* Lines 135-149 and 227-244: the pricing or upsell call returns; the future
\* ends with the progress event and the result event.
SequentialCallDone(i) ==
    /\ StreamPolled
    /\ handler \in SequentialHandlers
    /\ i \in 1..total
    /\ it_pc[i] = "call"
    /\ \E resp \in SingleCallResponses :
          LET result == SingleCallOutcome(handler, resp) IN
          /\ it_result' = [it_result EXCEPT ![i] = result]
          /\ it_resp' = [it_resp EXCEPT ![i] = Some(resp)]
          /\ events' = events \o SequentialEvents(i, result)
    /\ it_calls' = [it_calls EXCEPT ![i] = 1]
    /\ it_pc' = [it_pc EXCEPT ![i] = "done"]
    /\ UNCHANGED <<request, phase, it_lookup, it_waits, gate, puts, reply>>
    /\ UNCHANGED <<rlVars, tkVars, sfVars, pureVars>>

\* The iterator is exhausted and no future is left: the stream ends.
StreamEnd ==
    /\ StreamPolled
    /\ \A i \in 1..total : it_pc[i] = "done"
    /\ phase' = "ended"
    /\ UNCHANGED <<request, it_resp, it_pc, it_lookup, it_waits, it_calls, it_result,
                   gate, puts, events, reply>>
    /\ UNCHANGED <<rlVars, tkVars, sfVars, pureVars>>

\* The consumer disconnects: the server drops the response body, and with it
\* the stream, the futures in the buffer (their requests and their hold on
\* the limiter) and the iterator of the sub-queries not yet started.
Disconnect ==
    /\ phase = "streaming"
    /\ phase' = "disconnected"
    /\ it_pc' = [i \in DOMAIN it_pc |->
                    IF it_pc[i] \in {"idle", "done"} THEN it_pc[i] ELSE "dropped"]
    /\ gate' = 0
    /\ UNCHANGED <<request, it_resp, it_lookup, it_waits, it_calls, it_result,
                   puts, events, reply>>
    /\ UNCHANGED <<rlVars, tkVars, sfVars, pureVars>>

\* flight_search, main.rs lines 148-158: the cache lookup; a decodable entry
\* is the reply.
FlightSearchLookup ==
    /\ phase = "begin"
    /\ handler = "flight_search"
    /\ it_pc[1] = "idle"
    /\ \E lookup \in LookupsOf(redis_client) :
          /\ it_lookup' = [it_lookup EXCEPT ![1] = lookup]
          /\ IF CacheHit(lookup)
             THEN /\ it_pc' = [it_pc EXCEPT ![1] = "done"]
                  /\ it_result' = [it_result EXCEPT ![1] = "cached"]
                  /\ reply' = Some([status |-> 200, data |-> CachedFirstPrice(lookup)])
                  /\ phase' = "replied"
             ELSE /\ it_pc' = [it_pc EXCEPT ![1] = "token"]
                  /\ UNCHANGED <<it_result, reply, phase>>
    /\ UNCHANGED <<request, it_resp, it_waits, it_calls, gate, puts, events>>
    /\ UNCHANGED <<rlVars, tkVars, sfVars, pureVars>>

\* main.rs lines 160-170: get_token, then search_flights is entered: it
\* sends its request, or panics while building the travelers.
FlightSearchToken ==
    /\ handler = "flight_search"
    /\ it_pc[1] = "token"
    /\ \E res \in TokenResults :
          IF res = "ok"
          THEN /\ IF TravelersPanic
                  THEN /\ it_pc' = [it_pc EXCEPT ![1] = "panicked"]
                       /\ phase' = "aborted"
                  ELSE /\ it_pc' = [it_pc EXCEPT ![1] = "call"]
                       /\ UNCHANGED phase
               /\ UNCHANGED reply
          ELSE /\ it_pc' = [it_pc EXCEPT ![1] = "done"]
               /\ reply' = Some([status |-> 500, data |-> <<>>])
               /\ phase' = "replied"
    /\ UNCHANGED <<request, it_resp, it_lookup, it_waits, it_calls, it_result, gate,
                   puts, events>>
    /\ UNCHANGED <<rlVars, tkVars, sfVars, pureVars>>

\* main.rs lines 170-189: search_flights returns; Ok is cached and replied,
\* Err becomes 502.
FlightSearchDone ==
    /\ handler = "flight_search"
    /\ it_pc[1] = "call"
    /\ \E script \in SearchScripts, stored \in StoreOutcomes(redis_client) :
          LET run == RunSearch(script, 1, 0) IN
          /\ it_result' = [it_result EXCEPT ![1] = run.result]
          /\ it_calls' = [it_calls EXCEPT ![1] = run.calls]
          /\ it_resp' = [it_resp EXCEPT ![1] = Some(run.last)]
          /\ puts' = IF IsOk(run.result) /\ stored THEN puts \cup {1} ELSE puts
          /\ IF run.result = "panic"
             THEN /\ it_pc' = [it_pc EXCEPT ![1] = "panicked"]
                  /\ phase' = "aborted"
                  /\ UNCHANGED reply
             ELSE /\ it_pc' = [it_pc EXCEPT ![1] = "done"]
                  /\ phase' = "replied"
                  /\ reply' = IF IsOk(run.result)
                              THEN Some([status |-> 200, data |-> SearchPrice(run.result)])
                              ELSE Some([status |-> 502, data |-> <<>>])
    /\ UNCHANGED <<request, it_lookup, it_waits, gate, events>>
    /\ UNCHANGED <<rlVars, tkVars, sfVars, pureVars>>

\* A request arrives: the handler, and the size of its batch (the number of
\* valid date combinations, or of flight offers; one search for flight_search).
InitST ==
    /\ IdlePure
    /\ IdleRL
    /\ IdleTK
    /\ IdleSF
    /\ redis_client \in BOOLEAN
    /\ handler \in Handlers
    /\ adults \in 0..MaxParty
    /\ infants \in 0..MaxParty
    /\ total \in 0..MaxItems
    /\ handler = "flight_search" => total = 1
    \* The pricing and upsell requests carry offers and no party fields.
    /\ handler \in SequentialHandlers => (adults = 1 /\ infants = 0)
    /\ phase = "begin"
    /\ it_pc = [i \in Items |-> "idle"]
    /\ it_lookup = [i \in Items |-> "pending"]
    /\ it_waits = [i \in Items |-> 0]
    /\ it_calls = [i \in Items |-> 0]
    /\ it_result = [i \in Items |-> "none"]
    /\ it_resp = [i \in Items |-> None]
    /\ gate = 0
    /\ puts = {}
    /\ events = <<>>
    /\ reply = <<>>

NextST ==
    \/ Begin
    \/ \E i \in Items : MatrixStart(i)
    \/ \E i \in Items : MatrixLookup(i)
    \/ \E i \in Items : SequentialStart(i)
    \/ \E i \in Items : LimiterEnter(i)
    \/ \E i \in Items : LimiterLeave(i)
    \/ \E i \in Items : MatrixSearchDone(i)
    \/ \E i \in Items : SequentialCallDone(i)
    \/ StreamEnd
    \/ Disconnect
    \/ FlightSearchLookup
    \/ FlightSearchToken
    \/ FlightSearchDone

SpecST == InitST /\ [][NextST]_vars

(***************************************************************************)
(* The bearer token of a streaming request: the handler calls get_token    *)
(* before it builds the stream, and every future of the stream gets a      *)
(* clone of the String it returned.  Meanwhile TOKEN_CACHE may come to     *)
(* hold a newer token (the old one has expired and another request has     *)
(* refreshed it).                                                          *)
(***************************************************************************)
\* get_token(&state.amadeus_client) at the head of the handler
StreamGetToken ==
    /\ ts_phase = "begin"
    /\ ts_gets' = ts_gets + 1
    /\ \E result \in TokenResults :
          IF result = "ok"
          THEN /\ ts_bearer' = Some(ts_cache)
               /\ ts_phase' = "streaming"
          ELSE /\ ts_phase' = "failed"
               /\ UNCHANGED ts_bearer
    /\ UNCHANGED <<ts_handler, ts_cache, ts_pc, ts_tries, ts_sent>>
    /\ UNCHANGED <<rlVars, tkVars, sfVars, stVars, ckVars, cgVars, sqVars, cpVars>>

\* get_token of another request stores a new token in TOKEN_CACHE
TokenRotates ==
    /\ ts_phase \in {"begin", "streaming"}
    /\ ts_cache <= MaxRotations
    /\ ts_cache' = ts_cache + 1
    /\ UNCHANGED <<ts_handler, ts_phase, ts_bearer, ts_gets, ts_pc, ts_tries, ts_sent>>
    /\ UNCHANGED <<rlVars, tkVars, sfVars, stVars, ckVars, cgVars, sqVars, cpVars>>

TokenFromCache(i) == ts_cache

\* let token = token.clone(); in the closure of the stream
TokenOf(i) == ts_bearer[1]

\* the future of sub-query i is polled for the first time (`.then` runs the
\* futures one after another, buffer_unordered several at once) and comes
\* out of limiter.wait()
SubQueryStart(i) ==
    /\ ts_phase = "streaming"
    /\ ts_pc[i] = "idle"
    /\ ts_handler \in SequentialHandlers => \A j \in 1..(i - 1) : ts_pc[j] = "done"
    /\ ts_pc' = [ts_pc EXCEPT ![i] = "ready"]
    /\ UNCHANGED <<ts_handler, ts_cache, ts_phase, ts_bearer, ts_gets, ts_tries, ts_sent>>
    /\ UNCHANGED <<rlVars, tkVars, sfVars, stVars, ckVars, cgVars, sqVars, cpVars>>

\* the upstream function sends its request with
\* header("Authorization", format!("Bearer {}", token))
SubQuerySend(i) ==
    /\ ts_phase = "streaming"
    /\ ts_pc[i] = "ready"
    /\ ts_sent' = ts_sent \cup {[item |-> i, try |-> ts_tries[i] + 1,
                                  token |-> TokenOf(i),
                                  stale |-> ts_cache # ts_bearer[1]]}
    /\ ts_tries' = [ts_tries EXCEPT ![i] = @ + 1]
    /\ ts_pc' = [ts_pc EXCEPT ![i] = "sent"]
    /\ UNCHANGED <<ts_handler, ts_cache, ts_phase, ts_bearer, ts_gets>>
    /\ UNCHANGED <<rlVars, tkVars, sfVars, stVars, ckVars, cgVars, sqVars, cpVars>>

\* the upstream answers; search_flights sleeps and sends again after a 429
\* while it has retries left, every other answer ends the sub-query
SubQueryAnswer(i) ==
    /\ ts_phase = "streaming"
    /\ ts_pc[i] = "sent"
    /\ \E status \in {"2xx", "401", "429"} :
          ts_pc' = [ts_pc EXCEPT ![i] =
                      IF /\ ts_handler = "price_matrix_stream"
                         /\ status = "429"
                         /\ ts_tries[i] <= max_retries
                      THEN "ready" ELSE "done"]
    /\ UNCHANGED <<ts_handler, ts_cache, ts_phase, ts_bearer, ts_gets, ts_tries, ts_sent>>
    /\ UNCHANGED <<rlVars, tkVars, sfVars, stVars, ckVars, cgVars, sqVars, cpVars>>

InitTS ==
    /\ IdleRL
    /\ IdleTK
    /\ IdleSF
    /\ IdleST
    /\ IdleCK
    /\ IdleCG
    /\ IdleSQ
    /\ IdleCP
    /\ ts_handler \in StreamHandlers
    /\ ts_cache = 1
    /\ ts_phase = "begin"
    /\ ts_bearer = None
    /\ ts_gets = 0
    /\ ts_pc = [i \in Items |-> "idle"]
    /\ ts_tries = [i \in Items |-> 0]
    /\ ts_sent = {}

NextTS ==
    \/ StreamGetToken
    \/ TokenRotates
    \/ \E i \in Items : SubQueryStart(i)
    \/ \E i \in Items : SubQuerySend(i)
    \/ \E i \in Items : SubQueryAnswer(i)

SpecTS == InitTS /\ [][NextTS]_vars

(***************************************************************************)
(* The same handlers on a batch longer than the buffer of the price-matrix *)
(* stream and than its progress step, in a run where nothing fails: the    *)
(* cache holds a decodable entry for all combinations but at most          *)
(* MaxMisses, the upstream answers with offers, and the response is        *)
(* stored.                                                                 *)
(***************************************************************************)
Batch == 1..MaxBatch
OffersAnswer == Some(Response("2xx", "offers", FALSE, ""))

LargeBatchLookup(i) ==
    /\ MatrixLookup(i)
    /\ it_lookup'[i] \in {"offers", "absent"}
    /\ Cardinality({j \in Batch : it_lookup'[j] = "absent"}) <= MaxMisses

LargeBatchSearchDone(i) ==
    /\ MatrixSearchDone(i)
    /\ it_resp'[i] = OffersAnswer
    /\ i \in puts'

LargeBatchCallDone(i) ==
    /\ SequentialCallDone(i)
    /\ it_resp'[i] = OffersAnswer

InitLB ==
    /\ IdlePure
    /\ IdleRL
    /\ IdleTK
    /\ IdleSF
    /\ redis_client = TRUE
    /\ handler \in StreamHandlers
    /\ adults = 1
    /\ infants = 0
    /\ total \in {MaxBatch - 1, MaxBatch}
    /\ phase = "begin"
    /\ it_pc = [i \in Batch |-> "idle"]
    /\ it_lookup = [i \in Batch |-> "pending"]
    /\ it_waits = [i \in Batch |-> 0]
    /\ it_calls = [i \in Batch |-> 0]
    /\ it_result = [i \in Batch |-> "none"]
    /\ it_resp = [i \in Batch |-> None]
    /\ gate = 0
    /\ puts = {}
    /\ events = <<>>
    /\ reply = <<>>

NextLB ==
    \/ Begin
    \/ \E i \in Batch : MatrixStart(i)
    \/ \E i \in Batch : LargeBatchLookup(i)
    \/ \E i \in Batch : SequentialStart(i)
    \/ \E i \in Batch : LimiterEnter(i)
    \/ \E i \in Batch : LimiterLeave(i)
    \/ \E i \in Batch : LargeBatchSearchDone(i)
    \/ \E i \in Batch : LargeBatchCallDone(i)
    \/ StreamEnd

SpecLB == InitLB /\ [][NextLB]_vars

(***************************************************************************)
(* The cache key of a search request (main.rs, sse.rs) and the upstream    *)
(* request that search_flights builds from it (amadeus.rs): two requests   *)
(* served by flight_search one after the other.                            *)
(***************************************************************************)
\* Option::unwrap_or
UnwrapOr(opt, default) == IF opt = None THEN default ELSE opt[1]

\* Display of a bool
ShowBool(b) == IF b THEN "true" ELSE "false"

\* FlightSearchRequest values: one route and departure date, with or without
\* return, one or two adults, and the optional fields absent or set.
SearchRequests ==
    [origin : {"FRA"}, destination : {"JFK"}, departure_date : {"2026-12-01"},
     return_date : {None, Some("2026-12-08")},
     adults : {1, 2}, children : {0}, infants : {0},
     currency : {None, Some("EUR"), Some("USD")},
     travel_class : {None, Some("ECONOMY")},
     non_stop : {None, Some(FALSE), Some(TRUE)},
     max_price : {None},
     max_results : {None, Some(50), Some(250)},
     included_airline_codes : {None},
     excluded_airline_codes : {None},
     additional_legs : {None}]

\* format!("flight_search:{}:{}:{}:{}:{}:{}:{}:{}:{}:{}", ...): the rendered
\* fields in order (none of the field values above contains the separator).
CacheKey(req) ==
    <<"flight_search", req.origin, req.destination, req.departure_date,
      UnwrapOr(req.return_date, ""), ToString(req.adults), ToString(req.children),
      ToString(req.infants), UnwrapOr(req.travel_class, "ECONOMY"),
      ShowBool(UnwrapOr(req.non_stop, FALSE)), ToString(UnwrapOr(req.max_results, 50))>>

\* Lines 174-206: the travelers array.
Travelers(req) ==
    [k \in 1..(req.adults + req.children + req.infants) |->
        IF k <= req.adults
        THEN [id |-> k, travelerType |-> "ADULT", associatedAdultId |-> None]
        ELSE IF k <= req.adults + req.children
        THEN [id |-> k, travelerType |-> "CHILD", associatedAdultId |-> None]
        ELSE [id |-> k, travelerType |-> "HELD_INFANT",
              associatedAdultId |->
                  Some(((k - req.adults - req.children - 1) % req.adults) + 1)]]

\* Lines 209-248: the legs.
OriginDestinations(req) ==
    LET out == <<[id |-> 1, from |-> req.origin, to |-> req.destination,
                  date |-> req.departure_date]>>
        back == IF req.additional_legs = None /\ req.return_date # None
                THEN <<[id |-> 2, from |-> req.destination, to |-> req.origin,
                        date |-> req.return_date[1]]>>
                ELSE <<>>
        legs == UnwrapOr(req.additional_legs, <<>>)
        more == [k \in 1..Len(legs) |->
                    [id |-> 1 + Len(back) + k, from |-> legs[k].origin,
                     to |-> legs[k].destination, date |-> legs[k].departure_date]]
    IN  out \o back \o more

\* Lines 257-315: the flight filters, each present or absent.
FlightFilters(req) ==
    LET legs == UnwrapOr(req.additional_legs, <<>>)
        od_ids == <<1>> \o (IF req.return_date # None THEN <<2>> ELSE <<>>)
                       \o [k \in 1..Len(legs) |-> k + 1]
    IN  [connectionRestriction |->
             IF req.non_stop = Some(TRUE) THEN Some(0) ELSE None,
         carrierRestrictions |->
             IF req.included_airline_codes # None
             THEN IF req.included_airline_codes[1] # <<>>
                  THEN Some([kind |-> "included", codes |-> req.included_airline_codes[1]])
                  ELSE None
             ELSE IF req.excluded_airline_codes # None /\ req.excluded_airline_codes[1] # <<>>
                  THEN Some([kind |-> "excluded", codes |-> req.excluded_airline_codes[1]])
                  ELSE None,
         cabinRestrictions |->
             IF req.travel_class # None
             THEN Some([cabin |-> req.travel_class[1], originDestinationIds |-> od_ids])
             ELSE None,
         maxPrice |-> req.max_price]

\* Lines 252-327: the body sent to the upstream.
UpstreamBody(req) ==
    [currencyCode |-> UnwrapOr(req.currency, "EUR"),
     originDestinations |-> OriginDestinations(req),
     travelers |-> Travelers(req),
     sources |-> <<"GDS">>,
     maxFlightOffers |-> UnwrapOr(req.max_results, 250),
     flightFilters |-> FlightFilters(req)]

\* The entry that a put of the response to `req` writes.
Entry(req) == [key |-> CacheKey(req), asked |-> UpstreamBody(req)]

\* conn.get(&cache_key)
Lookup(key) == {e \in ck_store : e.key = key}

\* flight_search on an empty store: the upstream answers the request built
\* from it, and the response is put under its key (best effort).
ServeFirst ==
    /\ ck_pc = "first"
    /\ \E stored \in BOOLEAN :
          ck_store' = IF stored THEN ck_store \cup {Entry(first[1])} ELSE ck_store
    /\ ck_pc' = "second"
    /\ UNCHANGED <<first, second, ck_answer>>
    /\ UNCHANGED <<rlVars, tkVars, sfVars, stVars, cgVars, sqVars, cpVars, tsVars>>

\* flight_search of the second request: the entry under its key, if there is
\* one, is the reply; otherwise the upstream is asked.
ServeSecond ==
    /\ ck_pc = "second"
    /\ LET hits == Lookup(CacheKey(second[1])) IN
       IF hits # {}
       THEN /\ ck_answer' = Some([from |-> "cache", asked |-> (CHOOSE e \in hits : TRUE).asked])
            /\ UNCHANGED ck_store
       ELSE /\ ck_answer' = Some([from |-> "upstream", asked |-> UpstreamBody(second[1])])
            /\ \E stored \in BOOLEAN :
                  ck_store' = IF stored THEN ck_store \cup {Entry(second[1])} ELSE ck_store
    /\ ck_pc' = "done"
    /\ UNCHANGED <<first, second>>
    /\ UNCHANGED <<rlVars, tkVars, sfVars, stVars, cgVars, sqVars, cpVars, tsVars>>

InitCK ==
    /\ IdleRL
    /\ IdleTK
    /\ IdleSF
    /\ IdleST
    /\ IdleCG
    /\ IdleSQ
    /\ IdleCP
    /\ IdleTS
    /\ first \in {Some(req) : req \in SearchRequests}
    /\ second \in {Some(req) : req \in SearchRequests}
    /\ ck_pc = "first"
    /\ ck_store = {}
    /\ ck_answer = None

NextCK == ServeFirst \/ ServeSecond

SpecCK == InitCK /\ [][NextCK]_vars

(***************************************************************************)
(* The combination generator of price_matrix_stream and price_matrix: two  *)
(* nested loops over the date lists of the request.  A date is a String;   *)
(* it is modelled as the sequence of its characters, each character as its *)
(* code, so that the comparison of two dates is the comparison of Strings. *)
(***************************************************************************)
MaxDates == 2

\* "01", "02" and "1": the third is a date that is not zero-padded
DateStrings == {<<0, 1>>, <<0, 2>>, <<1>>}

DateLists == UNION {[1..n -> DateStrings] : n \in 0..MaxDates}

RECURSIVE StrLess(_, _)
\* a < b for Strings: lexicographic on the characters, a proper prefix is less
StrLess(a, b) ==
    IF b = <<>> THEN FALSE
    ELSE IF a = <<>> THEN TRUE
    ELSE IF Head(a) # Head(b) THEN Head(a) < Head(b)
    ELSE StrLess(Tail(a), Tail(b))

IsAfterOrSame(inbound, outbound) == ~StrLess(inbound, outbound)

\* inbound > outbound
IsAfter(inbound, outbound) == StrLess(outbound, inbound)

\* the loops have run to their end
Generated == outer > Len(outbound_dates)

\* one iteration of `for inbound in &payload.inbound_dates`
InnerStep ==
    /\ ~Generated
    /\ inner <= Len(inbound_dates)
    /\ combinations' =
          IF IsAfter(inbound_dates[inner], outbound_dates[outer])
          THEN Append(combinations, <<outbound_dates[outer], inbound_dates[inner]>>)
          ELSE combinations
    /\ inner' = inner + 1
    /\ UNCHANGED <<outbound_dates, inbound_dates, outer>>
    /\ UNCHANGED <<rlVars, tkVars, sfVars, stVars, ckVars, sqVars, cpVars, tsVars>>

\* the inner loop is exhausted: next iteration of
\* `for outbound in &payload.outbound_dates`
OuterStep ==
    /\ ~Generated
    /\ inner > Len(inbound_dates)
    /\ outer' = outer + 1
    /\ inner' = 1
    /\ UNCHANGED <<outbound_dates, inbound_dates, combinations>>
    /\ UNCHANGED <<rlVars, tkVars, sfVars, stVars, ckVars, sqVars, cpVars, tsVars>>

InitCG ==
    /\ IdleRL
    /\ IdleTK
    /\ IdleSF
    /\ IdleST
    /\ IdleCK
    /\ IdleSQ
    /\ IdleCP
    /\ IdleTS
    /\ outbound_dates \in DateLists
    /\ inbound_dates \in DateLists
    /\ outer = 1
    /\ inner = 1
    /\ combinations = <<>>

NextCG == InnerStep \/ OuterStep

SpecCG == InitCG /\ [][NextCG]_vars

(***************************************************************************)
(* The provider combinator: CombinedProvider::search over a primary (GDS)  *)
(* and an optional secondary (NDC) source.  An offer is reduced to its     *)
(* source and its price.total string.                                      *)
(***************************************************************************)
\* price.total strings a source may send
PriceStrings == {"300", "500", "abc", "NaN", "inf"}

\* f64::MAX, above every finite price of PriceStrings, and +infinity above it
F64Max == 1000000
F64Inf == F64Max + 1
\* the value NaN, which compares with nothing
F64NaN == F64Max + 2

\* str::parse::<f64>(): a decimal number, "NaN" and "inf" parse; "abc" is an
\* Err.
ParseF64(text) ==
    CASE text = "300" -> Some(300)
      [] text = "500" -> Some(500)
      [] text = "NaN" -> Some(F64NaN)
      [] text = "inf" -> Some(F64Inf)
      [] OTHER -> None

\* a.price.total.parse().unwrap_or(f64::MAX)
SortKey(offer) == UnwrapOr(ParseF64(offer.total), F64Max)

\* price_a.partial_cmp(&price_b).unwrap_or(Ordering::Equal): partial_cmp is
\* None when either side is NaN
Compare(a, b) ==
    LET price_a == SortKey(a)
        price_b == SortKey(b)
    IN  IF price_a = F64NaN \/ price_b = F64NaN THEN "Equal"
        ELSE IF price_a < price_b THEN "Less"
        ELSE IF price_a > price_b THEN "Greater"
        ELSE "Equal"

Range(seq) == {seq[i] : i \in DOMAIN seq}

\* The closure of sort_by is a total order on the elements of the slice.
IsTotalOrder(offers) ==
    \A a, b, c \in Range(offers) :
        (Compare(a, b) # "Greater" /\ Compare(b, c) # "Greater")
            => /\ Compare(a, c) # "Greater"
               /\ (Compare(a, b) = "Equal" /\ Compare(b, c) = "Equal")
                     => Compare(a, c) = "Equal"

RECURSIVE InsertSorted(_, _)
\* x goes behind every element that is not greater than it (the sort is stable)
InsertSorted(sorted, x) ==
    IF sorted = <<>> THEN <<x>>
    ELSE IF Compare(sorted[Len(sorted)], x) # "Greater" THEN Append(sorted, x)
    ELSE Append(InsertSorted(SubSeq(sorted, 1, Len(sorted) - 1), x), sorted[Len(sorted)])

RECURSIVE StableSort(_)
StableSort(offers) ==
    IF offers = <<>> THEN <<>>
    ELSE InsertSorted(StableSort(SubSeq(offers, 1, Len(offers) - 1)), offers[Len(offers)])

Count(seq, x) == Cardinality({i \in DOMAIN seq : seq[i] = x})

Reorderings(offers) ==
    {p \in [1..Len(offers) -> Range(offers)] :
        \A x \in Range(offers) : Count(p, x) = Count(offers, x)}

\* gds.data.sort_by(..): the stable sort when the closure is a total order;
\* otherwise the order of the elements is unspecified and the call may panic.
SortOutcomes(offers) ==
    IF IsTotalOrder(offers)
    THEN {[panics |-> FALSE, data |-> StableSort(offers)]}
    ELSE {[panics |-> FALSE, data |-> p] : p \in Reorderings(offers)}
            \cup {[panics |-> TRUE, data |-> <<>>]}

OfferLists(source, longest) ==
    UNION {[1..n -> [source : {source}, total : PriceStrings]] : n \in 0..longest}

Ok(data) == [ok |-> TRUE, data |-> data, error |-> ""]
Err(error) == [ok |-> FALSE, data |-> <<>>, error |-> error]
\* the task running search has panicked: nothing is returned
Panicked == [ok |-> FALSE, data |-> <<>>, error |-> "panicked"]

\* self.gds_provider.search(request) is called
GdsSearchStart ==
    /\ gds_pc = "idle"
    /\ gds_pc' = "in_flight"
    /\ UNCHANGED <<ndc_provider, ndc_pc, gds_result, ndc_result, cp_result>>
    /\ UNCHANGED <<rlVars, tkVars, sfVars, stVars, ckVars, cgVars, sqVars, tsVars>>

\* ... .await: the GDS query has answered
GdsSearchDone ==
    /\ gds_pc = "in_flight"
    /\ gds_pc' = "done"
    /\ gds_result' \in {Some(Ok(data)) : data \in OfferLists("gds", MaxOffers)}
                          \cup {Some(Err("gds error"))}
    /\ UNCHANGED <<ndc_provider, ndc_pc, ndc_result, cp_result>>
    /\ UNCHANGED <<rlVars, tkVars, sfVars, stVars, ckVars, cgVars, sqVars, tsVars>>

\* ndc.search(request) is called: line 62 is reached after the await of
\* line 58 has completed
NdcSearchStart ==
    /\ ndc_provider
    /\ gds_pc = "done"
    /\ ndc_pc = "idle"
    /\ cp_result = None
    /\ ndc_pc' = "in_flight"
    /\ UNCHANGED <<ndc_provider, gds_pc, gds_result, ndc_result, cp_result>>
    /\ UNCHANGED <<rlVars, tkVars, sfVars, stVars, ckVars, cgVars, sqVars, tsVars>>

\* the offers of the two sources together are at most MaxOffers
RoomLeft == MaxOffers - (IF gds_result[1].ok THEN Len(gds_result[1].data) ELSE 0)

\* ... .await: the NDC query has answered
NdcSearchDone ==
    /\ ndc_pc = "in_flight"
    /\ ndc_pc' = "done"
    /\ ndc_result' \in {Some(Ok(data)) : data \in OfferLists("ndc", RoomLeft)}
                          \cup {Some(Err("ndc error"))}
    /\ UNCHANGED <<ndc_provider, gds_pc, gds_result, cp_result>>
    /\ UNCHANGED <<rlVars, tkVars, sfVars, stVars, ckVars, cgVars, sqVars, tsVars>>

\* lines 61-71: Some(result) of a successful NDC query, None otherwise
NdcOption == IF ndc_result # None /\ ndc_result[1].ok THEN ndc_result ELSE None

\* lines 74-93
Combined(gds, ndc) ==
    CASE gds.ok /\ ndc # None ->
            {IF sorted.panics THEN Panicked ELSE Ok(sorted.data) :
                sorted \in SortOutcomes(gds.data \o ndc[1].data)}
      [] gds.ok /\ ndc = None -> {gds}
      [] ~gds.ok /\ ndc # None -> {ndc[1]}
      [] OTHER -> {gds}

\* the match of line 74, once both queries are over
Combine ==
    /\ gds_pc = "done"
    /\ gds_result # None
    /\ IF ndc_provider THEN ndc_pc = "done" ELSE ndc_pc = "idle"
    /\ cp_result = None
    /\ \E out \in Combined(gds_result[1], NdcOption) : cp_result' = Some(out)
    /\ UNCHANGED <<ndc_provider, gds_pc, ndc_pc, gds_result, ndc_result>>
    /\ UNCHANGED <<rlVars, tkVars, sfVars, stVars, ckVars, cgVars, sqVars, tsVars>>

InitCP ==
    /\ IdleRL
    /\ IdleTK
    /\ IdleSF
    /\ IdleST
    /\ IdleCK
    /\ IdleCG
    /\ IdleSQ
    /\ IdleTS
    /\ ndc_provider \in BOOLEAN
    /\ gds_pc = "idle"
    /\ ndc_pc = "idle"
    /\ gds_result = None
    /\ ndc_result = None
    /\ cp_result = None

NextCP ==
    \/ GdsSearchStart
    \/ GdsSearchDone
    \/ NdcSearchStart
    \/ NdcSearchDone
    \/ Combine

SpecCP == InitCP /\ [][NextCP]_vars

(***************************************************************************)
(* Claims about the rate limiter.                                          *)
(***************************************************************************)
SameLimiterPairs ==
    {p \in (1..Len(returns)) \X (1..Len(returns)) :
        p[1] < p[2] /\ returns[p[1]].limiter = returns[p[2]].limiter}

\* C1: through one RateLimiter (and its clones) any two wait() calls return at
\* least interval_ms apart, however many tasks call it concurrently.
C1_GapAtLeastInterval ==
    \A p \in SameLimiterPairs :
        returns[p[2]].at - returns[p[1]].at >= interval_ms(returns[p[1]].limiter)

\* Two tasks went through the same limiter, the second one having slept in the
\* gate until the interval was over.
C1_Witness ==
    \E p \in SameLimiterPairs :
        /\ returns[p[1]].task # returns[p[2]].task
        /\ returns[p[2]].at - returns[p[1]].at = interval_ms(returns[p[1]].limiter)
        /\ \E task \in Tasks : rl_pc[task] \in {"queued", "granted"}

\* C2: all upstream calls of one endpoint class pass through one shared
\* limiter, so two dispatches of two concurrent requests of the same kind are
\* at least one interval apart as well.
C2_SharedAcrossRequests ==
    \A i, j \in 1..Len(returns) :
        (i < j /\ tps[returns[i].limiter] = tps[returns[j].limiter])
            => returns[j].at - returns[i].at >= interval_ms(returns[i].limiter)

(***************************************************************************)
(* Claims about the credential manager.                                    *)
(***************************************************************************)
\* Every token a refresh has stored is still usable (more than 60 s before
\* the cached expiry).
RefreshedTokensUsable ==
    \A i \in DOMAIN handed :
        handed[i].result = "fetched" => issued[handed[i].token] - 120 > clock + 60

\* C3: callers that all invoke get_token() while the cached token is absent or
\* expired (none of them read the cache after a refresh had been stored)
\* cause exactly one call to the auth endpoint, the token it returns staying
\* usable.
C3_ExactlyOneAuthCall ==
    ((\A c \in Callers : checked_at[c] = 0) /\ RefreshedTokensUsable)
        => auth_calls <= 1

\* C4: a token returned by get_token() has at least 60 s left before the
\* upstream stops accepting it, whether read from the cache or just fetched.
C4_SixtySecondsLeft ==
    \A i \in DOMAIN handed :
        handed[i].result # "error" => issued[handed[i].token] - handed[i].at >= 60

\* C31: after a successful refresh the cached expiry is issued_at + ttl - 120
\* seconds for every ttl the auth endpoint returns (issued[t] is
\* issued_at + ttl of token t), and the refresh completes.
C31_ExpiryIsTtlLess120 ==
    /\ token_cache # None =>
          token_cache[1].expires_at = issued[token_cache[1].token] - 120
    /\ \A c \in Callers : tk_pc[c] # "panicked"

\* the cached token has more than 60 s of life left
MoreThan60sLeft == token_cache # None /\ token_cache[1].expires_at > clock + 60

\* what the step has appended to the history of results, if anything
NewlyHanded == IF Len(handed') = Len(handed) + 1 THEN Some(handed'[Len(handed')]) ELSE None

\* C39: get_token changes the cache only on a successful auth call.  A caller
\* that finds a token with more than 60 s of life gets that token, with no
\* auth call and no cache write; a call that ends with an error leaves the
\* cached token and expiry as they were; the cache changes only in the step
\* that hands out a freshly fetched token, and then holds that token.
C39_CacheWrittenOnlyOnSuccess ==
    [][/\ \A c \in Callers :
             (tk_pc[c] = "start" /\ tk_pc'[c] # "start" /\ MoreThan60sLeft) =>
                 /\ auth_calls' = auth_calls
                 /\ token_cache' = token_cache
                 /\ NewlyHanded # None
                 /\ NewlyHanded[1].result = "cached"
                 /\ NewlyHanded[1].token = token_cache[1].token
       /\ (NewlyHanded # None /\ NewlyHanded[1].result = "error") =>
             token_cache' = token_cache
       /\ token_cache' # token_cache =>
             /\ NewlyHanded # None
             /\ NewlyHanded[1].result = "fetched"
             /\ token_cache'[1].token = NewlyHanded[1].token
      ]_vars

\* One caller was served from the cache; later the token was no longer
\* usable, the auth call of the other caller failed, and the cache still
\* holds the old token.
C39_Witness ==
    /\ Len(handed) = 2
    /\ handed[1].result = "cached"
    /\ handed[2].result = "error"
    /\ auth_calls = 1
    /\ token_cache = Some([token |-> 1, expires_at |-> 90])

(***************************************************************************)
(* Claims about the retrying caller.                                       *)
(***************************************************************************)
Is429(resp) == resp.status = "429"
\* The responses so far are k answers 429 followed by one answer 2xx.
RetriedThenAnswered(k) ==
    /\ Len(responses) = k + 1
    /\ \A i \in 1..k : Is429(responses[i])
    /\ responses[k + 1].status = "2xx"

\* C5 as amended: one invocation of search_flights makes at most 4 HTTP calls
\* and never stops halfway; k <= 3 answers 429 followed by a 2xx answer whose
\* body decodes make k+1 calls and a success; 4 answers 429 make 4 calls and
\* the rate-limit error.
C5_RetryBudget ==
    /\ http_calls <= max_retries + 1
    /\ Len(sleeps) <= max_retries
    /\ sf_pc \notin {"done", "panicked"} => ENABLED NextSF
    /\ \A k \in 0..max_retries :
          (RetriedThenAnswered(k) /\ Parses(responses[k + 1].body))
              => sf_pc = "done" /\ http_calls = k + 1 /\ IsOk(sf_result)
    /\ (Len(responses) = max_retries + 1 /\ \A i \in DOMAIN responses : Is429(responses[i]))
          => sf_pc = "done" /\ http_calls = max_retries + 1
             /\ sf_result = "rate_limit_error"

\* Three answers 429 and then a decodable 2xx answer: four calls, success.
C5_Witness ==
    /\ RetriedThenAnswered(max_retries)
    /\ sf_pc = "done"
    /\ IsOk(sf_result)
    /\ http_calls = max_retries + 1

\* C5 as stated: every 2xx answer after k <= 3 answers 429 makes the
\* invocation succeed.
C5_AnySuccessStatusSucceeds ==
    \A k \in 0..max_retries :
        RetriedThenAnswered(k) => sf_pc = "done" /\ http_calls = k + 1 /\ IsOk(sf_result)

\* C16: the sleep before retry number n is 2^(n-1) seconds when the 429
\* answer carries no Retry-After header, and is the header's value, verbatim,
\* when it carries one.
C16_SleepSchedule ==
    \A n \in DOMAIN sleeps :
        IF responses[n].has_hint
        THEN ToString(sleeps[n]) = responses[n].hint
        ELSE sleeps[n] = 2 ^ (n - 1)

\* C17: an answer whose status is neither 2xx nor 429 is the last one: the
\* invocation has returned the error that carries its status and body, with
\* no sleep and no call after it.
C17_OtherStatusIsTerminal ==
    \A n \in DOMAIN responses :
        responses[n].status \notin {"2xx", "429", "transport"} =>
            /\ n = Len(responses)
            /\ sf_pc = "done"
            /\ sf_result = "status_error"
            /\ sf_error = Some([status |-> responses[n].status, body |-> responses[n].body])
            /\ http_calls = n
            /\ Len(sleeps) = n - 1

\* A 500 answer that arrived after two retried 429 answers.
C17_Witness ==
    /\ Len(responses) = 3
    /\ Is429(responses[1]) /\ Is429(responses[2])
    /\ responses[3].status = "500"
    /\ sf_pc = "done"
    /\ Len(sleeps) = 2

(***************************************************************************)
(* Claims about the handlers and their streams.                            *)
(***************************************************************************)
EventsOf(types) == {k \in DOMAIN events : events[k].type \in types}
\* The terminal events of sub-query i: Price in the price-matrix stream,
\* Success or Error in the pricing and upsell streams.
TerminalEvents(i) ==
    {k \in EventsOf({"Price", "Success", "Error"}) : events[k].item = i}
Succeeded == {i \in 1..total : it_result[i] \in {"cached", "ok_offers", "ok_empty"}}
Failed == {i \in 1..total : it_pc[i] = "done"} \ Succeeded

\* C6: a sub-query (of price_matrix_stream or flight_search) whose cache
\* lookup returned a decodable entry makes no RateLimiter::wait() and no
\* upstream call, and its result is the cached response.
C6_HitSkipsLimiterAndUpstream ==
    \A i \in Items :
        it_lookup[i] \in {"offers", "empty"} =>
            LET cached == IF it_lookup[i] = "offers" THEN <<CachedPrice>> ELSE <<>> IN
            /\ it_waits[i] = 0
            /\ it_calls[i] = 0
            /\ i \notin puts
            /\ it_pc[i] = "done"
            /\ handler = "price_matrix_stream" =>
                  \E k \in TerminalEvents(i) : events[k].price = cached
            /\ handler = "flight_search" =>
                  reply = <<[status |-> 200, data |-> cached]>>

\* A price-matrix stream in which one combination was served from the cache
\* and another one by an upstream call.
C6_Witness ==
    /\ handler = "price_matrix_stream"
    /\ \E i, j \in 1..total :
          /\ it_lookup[i] = "offers" /\ it_pc[i] = "done"
          /\ it_lookup[j] = "absent" /\ it_pc[j] = "done"
          /\ it_waits[j] = 1 /\ it_calls[j] >= 1

\* C7: every sub-query of a stream ends up with exactly one terminal event,
\* never two and, once the stream is over, never none, whichever of its
\* siblings fail.
C7_ExactlyOneTerminalEvent ==
    /\ \A i \in Items : Cardinality(TerminalEvents(i)) <= 1
    /\ (handler \in StreamHandlers /\ phase \in {"ended", "aborted"})
          => \A i \in 1..total : Cardinality(TerminalEvents(i)) = 1

\* C8: every batch stream that runs to its end has emitted exactly one
\* Complete event, a batch without sub-queries included.
C8_ExactlyOneComplete ==
    phase = "ended" => Cardinality(EventsOf({"Complete"})) = 1

\* C9: in price_matrix_stream the Complete event is the last event of the
\* stream.
C9_CompleteIsLast ==
    handler = "price_matrix_stream" =>
        \A k \in EventsOf({"Complete"}) : k = Len(events)

\* C10: the Complete event carries the number of sub-queries, of those that
\* succeeded and of those that failed.
C10_AccurateCounts ==
    phase = "ended" =>
        \A k \in EventsOf({"Complete"}) :
            /\ events[k].total = total
            /\ events[k].successful = Cardinality(Succeeded)
            /\ events[k].failed = Cardinality(Failed)
            /\ events[k].successful + events[k].failed = events[k].total

\* C11: within one stream every Progress event carries a current value
\* greater than that of every Progress event before it.
C11_ProgressStrictlyIncreasing ==
    \A k, m \in EventsOf({"Progress"}) :
        k < m => events[k].current < events[m].current

\* C12: a sub-query that failed is reported by an Error event of its own, and
\* the event of a failed sub-query differs (apart from naming the item) from
\* the event of a search that succeeded with no offers.
C12_FailureSurfacedAsError ==
    handler \in StreamHandlers =>
        \A i \in Failed :
            /\ \E k \in TerminalEvents(i) : events[k].type = "Error"
            /\ \A j \in 1..total, k \in TerminalEvents(i) :
                  it_result[j] = "ok_empty" =>
                      \A m \in TerminalEvents(j) :
                          [events[k] EXCEPT !.item = 0] # [events[m] EXCEPT !.item = 0]

\* C13: at most 4 sub-queries of a price-matrix stream are in progress at any
\* time (so a fifth one starts only once one of them has finished), and at
\* most one sub-query of a pricing or upsell stream.
C13_BoundedConcurrency ==
    /\ handler = "price_matrix_stream" => Cardinality(InFlight) <= 4
    /\ handler \in SequentialHandlers => Cardinality(InFlight) <= 1

\* Four combinations are in progress, one of them inside its upstream call,
\* and the next one is waiting for a free slot.
C13_Witness ==
    /\ handler = "price_matrix_stream"
    /\ Cardinality(InFlight) = 4
    /\ \E i, j \in 1..total : it_pc[i] = "call" /\ it_pc[j] = "idle"

\* C14: once the consumer has disconnected no sub-query starts: no future
\* leaves the iterator, no cache lookup returns, no wait() begins and no
\* upstream call is made.
C14_NoStartAfterDisconnect ==
    [][phase = "disconnected" =>
          /\ \A i \in DOMAIN it_pc : it_pc[i] = "idle" => it_pc'[i] = "idle"
          /\ it_lookup' = it_lookup
          /\ it_waits' = it_waits
          /\ it_calls' = it_calls
          /\ events' = events]_vars

\* The consumer left while one sub-query was in flight and another one had
\* not started.
C14_Witness ==
    /\ phase = "disconnected"
    /\ \E i, j \in 1..total : it_pc[i] = "dropped" /\ it_pc[j] = "idle"

\* C15: a streaming handler whose get_token() failed has replied with an
\* error and nothing else: no event, no cache lookup, no wait() and no
\* upstream call.
C15_TokenFailureStartsNothing ==
    (handler \in StreamHandlers /\ reply # None) =>
        /\ phase = "failed"
        /\ reply = Some([status |-> 500, data |-> <<>>])
        /\ events = <<>>
        /\ gate = 0
        /\ puts = {}
        /\ \A i \in DOMAIN it_pc :
              /\ it_pc[i] = "idle"
              /\ it_lookup[i] = "pending"
              /\ it_waits[i] = 0
              /\ it_calls[i] = 0

\* A request with sub-queries to run whose handler could not get a token.
C15_Witness ==
    /\ handler \in StreamHandlers
    /\ total = MaxItems
    /\ phase = "failed"
    /\ reply # None

\* C18: in the pricing and upsell streams an item whose call was answered 429
\* is retried, and is reported as an error only after max_retries retries.
C18_RateLimitedItemIsRetried ==
    handler \in SequentialHandlers =>
        \A i \in 1..total :
            (it_pc[i] = "done" /\ ~IsOk(it_result[i]) /\ it_resp[i] # None
               /\ Is429(it_resp[i][1]))
                => it_calls[i] = max_retries + 1

\* The error text names the business error "no upsell offers found".
IsNoUpsellError(text) == text = "code 39397"

\* C19: get_upsell_offers turns a non-2xx answer into an empty success if and
\* only if it is a 400 whose error code is 39397.
C19_NarrowNoUpsellPolicy ==
    handler = "upsell_stream" =>
        \A i \in 1..total :
            (it_pc[i] = "done" /\ it_resp[i] # None
               /\ it_resp[i][1].status \notin {"2xx", "transport"})
                => (IsOk(it_result[i])
                      <=> (it_resp[i][1].status = "400" /\ IsNoUpsellError(it_resp[i][1].body)))

\* C20: a 2xx answer whose body does not parse makes search_flights return
\* the decode error, and nothing is written to the cache for the sub-query.
C20_UnparsableBodyIsDecodeError ==
    handler \in {"price_matrix_stream", "flight_search"} =>
        \A i \in 1..total :
            (it_resp[i] # None /\ it_resp[i][1].status = "2xx" /\ ~Parses(it_resp[i][1].body))
                => /\ it_result[i] = "decode_error"
                   /\ it_pc[i] = "done"
                   /\ i \notin puts

\* The terminal event of sub-query i, or the reply of flight_search, delivers
\* the upstream result.
Delivered(i) ==
    IF handler = "flight_search"
    THEN reply = Some([status |-> 200, data |-> SearchPrice(it_result[i])])
    ELSE \E k \in TerminalEvents(i) : events[k].price = SearchPrice(it_result[i])

\* C21: a lookup that fails (store unreachable, entry that does not decode)
\* is a miss: the sub-query goes through the limiter and to the upstream,
\* never to a cached result; and an upstream result whose put failed is
\* delivered all the same.
C21_StoreFailureIsNotFatal ==
    handler \in {"price_matrix_stream", "flight_search"} =>
        \A i \in 1..total :
            /\ it_lookup[i] \in {"unreachable", "undecodable"} =>
                  /\ it_result[i] # "cached"
                  /\ it_pc[i] # "lookup"
                  /\ handler = "price_matrix_stream" => it_waits[i] = 1
                  /\ it_result[i] # "none" => it_calls[i] >= 1
            /\ (IsOk(it_result[i]) /\ i \notin puts) => Delivered(i)

\* A sub-query whose lookup failed and whose put failed has delivered the
\* offers of the upstream.
C21_Witness ==
    \E i \in 1..total :
        /\ redis_client
        /\ it_lookup[i] = "unreachable"
        /\ it_result[i] = "ok_offers"
        /\ i \notin puts
        /\ Delivered(i)

\* C22: without a configured store a price-matrix stream runs as with a
\* store in which every lookup misses: no cached result and no put, and
\* every sub-query passes the limiter once, calls the upstream and emits the
\* event of the upstream result, as a sub-query whose lookup found no entry.
C22_NoStoreIsAlwaysMiss ==
    handler = "price_matrix_stream" =>
        /\ ~redis_client =>
              /\ puts = {}
              /\ \A i \in 1..total : it_lookup[i] \in {"pending", "no_store"}
        /\ \A i \in 1..total :
              (it_lookup[i] \in {"no_store", "absent"} /\ it_pc[i] = "done") =>
                  /\ it_result[i] # "cached"
                  /\ it_waits[i] = 1
                  /\ it_calls[i] >= 1
                  /\ Delivered(i)

\* A stream without store that ended with one combination priced and one
\* failed.
C22_Witness ==
    /\ handler = "price_matrix_stream"
    /\ ~redis_client
    /\ phase = "ended"
    /\ \E i, j \in 1..total : it_result[i] = "ok_offers" /\ it_result[j] = "status_error"

\* C35: every upstream dispatch made for a price-matrix sub-query, the
\* retries after a 429 included, comes after a RateLimiter::wait() of its own:
\* no sub-query has made more upstream calls than wait() calls.
C35_EveryDispatchIsGated ==
    handler = "price_matrix_stream" =>
        \A i \in 1..total : it_calls[i] <= it_waits[i]

\* the Price events among the first n events of the stream
PricesAmongFirst(n) == {k \in 1..n : events[k].type = "Price"}

\* C36: in the price-matrix stream a Progress event with current = k comes only
\* after at least k sub-queries have had their Price event emitted.
C36_ProgressCountsFinishedItems ==
    handler = "price_matrix_stream" =>
        \A n \in 1..Len(events) :
            events[n].type = "Progress" =>
                events[n].current <= Cardinality(PricesAmongFirst(n))

\* the offers whose future has finished
OffersDone == {i \in 1..total : it_pc[i] = "done"}

\* C37: in the pricing and upsell streams the offers are processed one after
\* another in input order: the events are, for i = 1, 2, ... in this order,
\* Progress{current = i, total} followed at once by the Success or Error event
\* of offer i, and the future of offer i + 1 (its wait() and its upstream
\* call) is started only after both events of offer i have been emitted.
C37_OneOfferAtATime ==
    handler \in SequentialHandlers =>
        /\ OffersDone = 1..Cardinality(OffersDone)
        /\ Len(events) = 2 * Cardinality(OffersDone)
        /\ \A i \in OffersDone :
              /\ events[2 * i - 1] = Event("Progress", 0, None, i, total, 0, 0)
              /\ events[2 * i].type \in {"Success", "Error"}
              /\ events[2 * i].item = i
        /\ \A i \in 1..(total - 1) :
              it_pc[i + 1] # "idle" => (it_pc[i] = "done" /\ Len(events) >= 2 * i)
        /\ \A i \in 1..total : it_waits[i] <= 1 /\ it_calls[i] <= it_waits[i]

\* Both offers of a batch of two have been processed, the second one after
\* the first.
C37_Witness ==
    /\ handler \in SequentialHandlers
    /\ total = 2
    /\ OffersDone = {1, 2}
    /\ Len(events) = 4
    /\ events[2].type = "Error"
    /\ events[4].type = "Success"

\* C38: within one streaming request get_token() is called exactly once,
\* before the first sub-query starts, and every upstream call of the stream
\* carries the token it returned, whatever TOKEN_CACHE holds by then.
C38_OneTokenPerStream ==
    /\ ts_gets <= 1
    /\ (\E i \in Items : ts_pc[i] # "idle") => (ts_gets = 1 /\ ts_bearer # None)
    /\ \A call \in ts_sent : call.token = ts_bearer[1]

\* A retry and a later sub-query were sent with the handler's token after the
\* cache had come to hold a newer one.
C38_Witness ==
    /\ ts_handler = "price_matrix_stream"
    /\ \E call \in ts_sent : call.try > 1 /\ call.stale
    /\ \E call \in ts_sent : call.try = 1 /\ call.stale

(***************************************************************************)
(* Claims about the cache key.                                             *)
(***************************************************************************)
\* C23: two requests whose upstream requests differ never have the same key,
\* so the second is never answered with the cached response of the first.
C23_DifferentRequestsNeverCollide ==
    (ck_answer # None /\ UpstreamBody(first[1]) # UpstreamBody(second[1])) =>
        /\ CacheKey(first[1]) # CacheKey(second[1])
        /\ ck_answer[1].asked = UpstreamBody(second[1])

\* C24: two requests that lead to the same upstream request have the same
\* key.
C24_SameRequestsShareKey ==
    (ck_answer # None /\ UpstreamBody(first[1]) = UpstreamBody(second[1])) =>
        CacheKey(first[1]) = CacheKey(second[1])

(***************************************************************************)
(* Claims about the combination generator.                                 *)
(***************************************************************************)
\* every position pair, outbound-major and inbound-minor
PositionPairs ==
    [k \in 1..(Len(outbound_dates) * Len(inbound_dates)) |->
        <<outbound_dates[((k - 1) \div Len(inbound_dates)) + 1],
          inbound_dates[((k - 1) % Len(inbound_dates)) + 1]>>]

InboundLater(pair) == StrLess(pair[1], pair[2])

\* C25: the generator yields exactly the pairs (outbound, inbound) with
\* inbound > outbound in the ordering of Strings, one per position pair, in
\* outbound-major and inbound-minor order; at no point does the list hold a
\* pair with inbound <= outbound; and for outbound [D1,D2], inbound [D1,D2]
\* with D1 < D2 the result is exactly [(D1,D2)].
C25_ExactlyThePairsWithInboundLater ==
    /\ \A k \in 1..Len(combinations) : InboundLater(combinations[k])
    /\ Generated => combinations = SelectSeq(PositionPairs, InboundLater)
    /\ (/\ Generated
        /\ Len(outbound_dates) = 2
        /\ inbound_dates = outbound_dates
        /\ StrLess(outbound_dates[1], outbound_dates[2]))
       => combinations = <<<<outbound_dates[1], outbound_dates[2]>>>>

C25_Witness ==
    /\ Generated
    /\ Len(outbound_dates) = 2
    /\ inbound_dates = outbound_dates
    /\ StrLess(outbound_dates[1], outbound_dates[2])
    /\ combinations = <<<<outbound_dates[1], outbound_dates[2]>>>>

(***************************************************************************)
(* Claims about a limiter called in a loop by one task.                    *)
(***************************************************************************)
SeqLimiter == LimiterOf(SeqTask)

\* C26: for tps = T, the N-th of N sequential wait() calls returns at least
\* (N-1) x 1000/T ms after the first call was made (both sides multiplied by
\* T, so that 1000/T is the exact quotient).
C26_SequentialCallsTakeFullIntervals ==
    \A n \in 1..Len(returns) :
        (returns[n].at - called[1].at) * tps[SeqLimiter] >= (n - 1) * 1000

\* every call followed the previous return, and the first the construction,
\* without a pause
BackToBack == Paused = {}

\* C27: ten back-to-back wait() calls on RateLimiter::new(10) take at least
\* 950 ms and at most 1100 ms, one interval per request.
C27_TenCallsTakeOneSecond ==
    (tps[SeqLimiter] = 10 /\ Len(returns) = 10 /\ BackToBack) =>
        /\ returns[10].at >= 950
        /\ returns[10].at <= 1100

\* the calls that returned in the window of 1000 ms opening at time t
ReturnedInWindow(t) ==
    {j \in 1..Len(returns) : returns[j].at >= t /\ returns[j].at < t + 1000}

\* C28: in every half-open window of 1000 ms at most tps wait() calls of one
\* limiter return.
C28_AtMostTpsPerSecond ==
    \A i \in 1..Len(returns) :
        Cardinality(ReturnedInWindow(returns[i].at)) <= tps[SeqLimiter]

\* C29: RateLimiter::new(0) is rejected as invalid input; it neither builds a
\* limiter nor panics.
C29_ZeroTpsIsRejected ==
    tps[SeqLimiter] = 0 => rl_pc[SeqTask] \notin {"built", "panicked"}

(***************************************************************************)
(* Claims about concurrent tasks blocked in wait().                        *)
(***************************************************************************)
InWait(task) == rl_pc[task] \in {"queued", "granted", "sleeping"}

\* the calls made before call k on the limiter of call k
EarlierCalls(k) ==
    {m \in 1..(k - 1) : LimiterOf(called[m].task) = LimiterOf(called[k].task)}

HasReturned(task) == \E i \in 1..Len(returns) : returns[i].task = task

\* no task has passed the gate while one that called wait() before it on the
\* same limiter is still inside
ArrivalOrder ==
    \A k \in 1..Len(called) :
        HasReturned(called[k].task) =>
            \A m \in EarlierCalls(k) : HasReturned(called[m].task)

\* the returns through one limiter are an interval apart each
OnePerInterval ==
    \A i, j \in 1..Len(returns) :
        (i < j /\ returns[i].limiter = returns[j].limiter)
            => returns[j].at - returns[i].at >=
                  Cardinality({k \in (i + 1)..j : returns[k].limiter = returns[i].limiter})
                      * interval_ms(returns[i].limiter)

\* C30: tasks blocked in wait() on one limiter pass the gate in the order in
\* which they arrived, one per interval, and every task that has called
\* wait() eventually returns.
C30_FifoAndNoStarvation ==
    /\ [](ArrivalOrder /\ OnePerInterval)
    /\ \A task \in Tasks : InWait(task) ~> (rl_pc[task] = "returned")

\* A first task has slept in the gate and returned, a second one that was
\* blocked in lock() has been handed the mutex, and a third one is still
\* blocked behind it.
C30_Witness ==
    \E l \in Requests :
        /\ \E i \in 1..Len(returns) : returns[i].limiter = l /\ returns[i].task \in Tasks
        /\ holder[l] # None
        /\ rl_pc[holder[l][1]] = "granted"
        /\ queue[l] # <<>>

Dropped(task) == rl_pc[task] \in {"dropped in lock", "dropped in sleep"}

\* the time of the last return through limiter l, if any
LastDispatch(l) ==
    LET mine == SelectSeq(returns, LAMBDA r : r.limiter = l)
    IN  IF mine = <<>> THEN None ELSE Some(mine[Len(mine)].at)

\* a dropped call holds nothing of the gate and has recorded nothing
GateReleased ==
    \A task \in Tasks :
        Dropped(task) =>
            /\ holder[LimiterOf(task)] # Some(task)
            /\ \A i \in 1..Len(queue[LimiterOf(task)]) : queue[LimiterOf(task)][i] # task
            /\ ~HasReturned(task)

\* the step that drops a call writes neither last_request nor a dispatch
DropWritesNothing ==
    (\E task \in Tasks : ~Dropped(task) /\ Dropped(task)') =>
        /\ last_request' = last_request
        /\ returns' = returns

\* C40: a wait() call dropped while it is blocked in lock() or sleeping in
\* the gate leaves last_request as it was, records no dispatch and gives the
\* mutex up; last_request stays the time of the last call that returned, the
\* calls that return are still an interval apart, and every other call that
\* is inside wait() eventually leaves it.
C40_DroppedWaitReleasesGate ==
    /\ [](GateReleased /\ OnePerInterval)
    /\ [](\A l \in Requests : last_request[l] = LastDispatch(l))
    /\ [][DropWritesNothing]_vars
    /\ \A task \in Tasks : InWait(task) ~> (rl_pc[task] = "returned" \/ Dropped(task))

\* One call was dropped while it slept in the gate, one while it was blocked
\* in lock(), and a call made after both has passed the gate.
C40_Witness ==
    \E a, b, c \in 1..Len(called) :
        /\ a < c
        /\ b < c
        /\ rl_pc[called[a].task] = "dropped in sleep"
        /\ rl_pc[called[b].task] = "dropped in lock"
        /\ rl_pc[called[c].task] = "returned"
        /\ last_request[LimiterOf(called[c].task)] # None
        /\ last_request[LimiterOf(called[c].task)][1] > called[c].at

(***************************************************************************)
(* Claims about the provider combinator.                                   *)
(***************************************************************************)
\* C32: with an NDC source configured, the NDC query is started without
\* waiting for the GDS query: there is no moment at which the GDS query has
\* finished and the NDC query has not been started.
C32_NdcStartsWithoutWaiting ==
    ndc_provider => ~(gds_pc = "done" /\ ndc_pc = "idle")

NdcSucceeded == ndc_provider /\ ndc_result # None /\ ndc_result[1].ok

OutcomeTable ==
    cp_result # None =>
        /\ gds_result # None
        /\ (gds_result[1].ok /\ ~NdcSucceeded) => cp_result[1] = Ok(gds_result[1].data)
        /\ (~gds_result[1].ok /\ NdcSucceeded) => cp_result[1] = Ok(ndc_result[1].data)
        /\ (~gds_result[1].ok /\ ~NdcSucceeded) => cp_result[1] = gds_result[1]
        /\ cp_result[1].error # "ndc error"

\* C33: search always queries the primary; primary ok and secondary absent or
\* failed gives the primary's items in their order, primary failed and
\* secondary ok gives the secondary's items, both failed or primary failed
\* and secondary absent gives the primary's error; the secondary's error is
\* never returned and the call never fails when the primary succeeded.
C33_OutcomeByCase ==
    /\ OutcomeTable
    /\ (cp_result # None /\ gds_result[1].ok) => cp_result[1].ok

PriceParses(offer) == ParseF64(offer.total) # None

\* the price parses to a number that has a place in the order
HasPrice(offer) == PriceParses(offer) /\ ParseF64(offer.total)[1] # F64NaN

PriceLe(a, b) == ParseF64(a.total)[1] <= ParseF64(b.total)[1]

\* C34: when both sources succeed the result is a permutation of the primary's
\* items followed by the secondary's, in non-decreasing order of total price,
\* every item whose price does not parse behind every item whose price
\* parses; the sort never fails.
C34_MergedAndSorted ==
    (cp_result # None /\ gds_result[1].ok /\ NdcSucceeded) =>
        LET out == cp_result[1]
            all == gds_result[1].data \o ndc_result[1].data
        IN  /\ out.ok
            /\ Len(out.data) = Len(all)
            /\ \A x \in Range(all) : Count(out.data, x) = Count(all, x)
            /\ \A i, j \in 1..Len(out.data) :
                  i < j =>
                    /\ (HasPrice(out.data[i]) /\ HasPrice(out.data[j]))
                          => PriceLe(out.data[i], out.data[j])
                    /\ ~(~PriceParses(out.data[i]) /\ PriceParses(out.data[j]))

=============================================================================
